---- MODULE Spec2Model ----
(***************************************************************************)
(* A model of dynomite's filter compiler (filter-options.ts:               *)
(* parseFilterOptions, normalizeFilterExpression, parseValue), of its      *)
(* paginated traversal engine (util.ts: queryTable) and of the copy,       *)
(* export and delete commands that consume a traversal.                    *)
(*                                                                         *)
(* Strings are sequences of one-character strings, so that the regular     *)
(* expressions and the string concatenations of the source are computed    *)
(* character by character.  An optional value (a TypeScript `x?: T`) is    *)
(* the empty set when it is undefined and a one-element set otherwise.     *)
(***************************************************************************)
EXTENDS Integers, Sequences, FiniteSets, TLC

VARIABLES
  cmdOptions,      \* parse: the FilterCommandOptions handed to parseFilterOptions
  keySchema,       \* parse: the KeySchema handed to parseFilterOptions
  parsed,          \* parse: the outcome of the last parseFilterOptions call
  pc,              \* traversal: position of each queryTable generator body
  options,         \* traversal: the QueryOptions each queryTable was called with
  lastEvaluatedKey,          \* traversal: util.ts:79
  KeyConditionExpression,    \* traversal: util.ts:82
  ExpressionAttributeNames,  \* traversal: util.ts:83
  ExpressionAttributeValues, \* traversal: util.ts:84
  response,        \* traversal: util.ts:149, the response being iterated
  idx,             \* traversal: position in response.Items of the item last yielded
  pending,         \* consumer: a next() call of the consumer is not yet settled
  outcome,         \* consumer: how its last next() call settled
  yielded,         \* consumer: the records it has received, in order
  requests,        \* store: the read requests received from each traversal, in order
  responses,       \* store: the answers given to each traversal, in order
  command,         \* command: the handler that runs ("none" when none does)
  cmdPc,           \* command: its position
  outputFile,      \* command: export.ts:35
  consumed,        \* command: the yielded records its for await loop has processed
  batch,           \* command: copy.ts:90
  foundItems,      \* command: delete.ts:84, `items`
  totalItems,      \* command: copy.ts:91, export.ts:78
  isFirstItem,     \* command: export.ts:79
  totalDeleted,    \* command: delete.ts:151
  written,         \* store: the BatchWriteCommands received, in order
  prompts,         \* terminal: the confirmation prompts shown, each with its answer
  output           \* file system and streams: what the export command wrote

parseVars == <<cmdOptions, keySchema, parsed>>
genVars == <<pc, options, lastEvaluatedKey, KeyConditionExpression,
             ExpressionAttributeNames, ExpressionAttributeValues, response, idx>>
ioVars == <<pending, outcome, yielded, requests, responses>>
cmdVars == <<command, cmdPc, outputFile, consumed, batch, foundItems, totalItems,
             isFirstItem, totalDeleted>>
envVars == <<written, prompts, output>>
vars == <<parseVars, genVars, ioVars, cmdVars, envVars>>

----------------------------------------------------------------------------
(* Optional values *)

None == {}
Some(v) == {v}
IsSome(o) == o # {}
Get(o) == CHOOSE v \in o : TRUE

Min(S) == CHOOSE m \in S : \A n \in S : m <= n
Max(S) == CHOOSE m \in S : \A n \in S : m >= n

----------------------------------------------------------------------------
(* Strings *)

\* JavaScript's \s, restricted to the characters of the model's alphabet.
IsSpace(c) == c \in {" ", "\t", "\n"}

\* The characters `.` does not match (no s flag).
IsLineTerminator(c) == c = "\n"

UpperLetters == <<"A","B","C","D","E","F","G","H","I","J","K","L","M",
                  "N","O","P","Q","R","S","T","U","V","W","X","Y","Z">>
LowerLetters == <<"a","b","c","d","e","f","g","h","i","j","k","l","m",
                  "n","o","p","q","r","s","t","u","v","w","x","y","z">>

\* Canonicalisation of a character under the i flag.
ToLower(c) ==
  IF \E i \in 1..26 : UpperLetters[i] = c
  THEN LowerLetters[CHOOSE i \in 1..26 : UpperLetters[i] = c]
  ELSE c

LowerCase(s) == [i \in 1..Len(s) |-> ToLower(s[i])]

StartsWith(s, p) == Len(s) >= Len(p) /\ SubSeq(s, 1, Len(p)) = p
EndsWith(s, p) == Len(s) >= Len(p) /\ SubSeq(s, Len(s) - Len(p) + 1, Len(s)) = p
StartsWithCI(s, p) == Len(s) >= Len(p) /\ LowerCase(SubSeq(s, 1, Len(p))) = LowerCase(p)

\* String.prototype.trim
Trim(s) ==
  LET keep == {i \in 1..Len(s) : ~IsSpace(s[i])}
  IN IF keep = {} THEN <<>> ELSE SubSeq(s, Min(keep), Max(keep))

\* String.prototype.substring(start, end): 0-based, clamped, swapped when start > end.
Substring(s, start, end) ==
  LET clamp(n) == IF n < 0 THEN 0 ELSE IF n > Len(s) THEN Len(s) ELSE n
      a == clamp(start)
      b == clamp(end)
      lo == IF a <= b THEN a ELSE b
      hi == IF a <= b THEN b ELSE a
  IN SubSeq(s, lo + 1, hi)

\* The quote stripping that follows several matches:
\*   if ((val.startsWith('"') && val.endsWith('"')) ||
\*       (val.startsWith("'") && val.endsWith("'"))) val = val.substring(1, val.length - 1)
StripQuotes(val) ==
  IF \/ (StartsWith(val, <<"\"">>) /\ EndsWith(val, <<"\"">>))
     \/ (StartsWith(val, <<"'">>) /\ EndsWith(val, <<"'">>))
  THEN Substring(val, 1, Len(val) - 1)
  ELSE val

\* String literals of the source.
Lit_between == <<"b","e","t","w","e","e","n">>
Lit_betweenParen == <<"b","e","t","w","e","e","n","(">>
Lit_begins_with == <<"b","e","g","i","n","s","_","w","i","t","h">>
Lit_begins_withParen == <<"b","e","g","i","n","s","_","w","i","t","h","(">>
Op_le == <<"<","=">>
Op_ge == <<">","=">>
Op_lt == <<"<">>
Op_gt == <<">">>
Op_eq == <<"=">>

\* A string value of a key clause or of a placeholder map.
StrVal(s) == [t |-> "string", v |-> s]

----------------------------------------------------------------------------
(* parseFilterOptions: the sort token *)

\* /^between\(/i.test(input)
TestBetween(input) == StartsWithCI(input, Lit_betweenParen)

\* /^begins_with\(/i.test(input)
TestBeginsWith(input) == StartsWithCI(input, Lit_begins_withParen)

\* input.match(/^between\(([^,]+),\s*([^\)]+)\)$/i): None, or Some(<<m[1], m[2]>>).
\* [^,]+ runs to the first comma; \s* is greedy and gives one character back
\* when nothing else is left for [^\)]+.
MatchBetween(input) ==
  IF ~StartsWithCI(input, Lit_betweenParen) THEN None ELSE
  LET r == SubSeq(input, Len(Lit_betweenParen) + 1, Len(input))
      commas == {i \in 1..Len(r) : r[i] = ","}
  IN IF commas = {} THEN None ELSE
     LET c == Min(commas)
         rest == SubSeq(r, c + 1, Len(r))
     IN IF c = 1 \/ rest = <<>> THEN None
        ELSE IF rest[Len(rest)] # ")" THEN None ELSE
        LET body == SubSeq(rest, 1, Len(rest) - 1)
            nonSpace == {i \in 1..Len(body) : ~IsSpace(body[i])}
            from == IF nonSpace = {} THEN Len(body) ELSE Min(nonSpace)
        IN IF body = <<>> \/ (\E i \in 1..Len(body) : body[i] = ")") THEN None
           ELSE Some(<<SubSeq(r, 1, c - 1), SubSeq(body, from, Len(body))>>)

\* input.match(/^begins_with\(([^\)]+)\)$/i): None, or Some(m[1]).
MatchBeginsWith(input) ==
  IF ~StartsWithCI(input, Lit_begins_withParen) THEN None ELSE
  LET r == SubSeq(input, Len(Lit_begins_withParen) + 1, Len(input))
  IN IF r = <<>> THEN None
     ELSE IF r[Len(r)] # ")" THEN None ELSE
     LET body == SubSeq(r, 1, Len(r) - 1)
     IN IF body = <<>> \/ (\E i \in 1..Len(body) : body[i] = ")") THEN None
        ELSE Some(body)

\* Alternatives that try the one-character operators first.
SortOperatorsShortFirst == <<Op_lt, Op_gt, Op_eq, Op_le, Op_ge>>

\* The alternatives of (<=|>=|<|>|=), in the order the regular expression tries them.
SortOperators == <<Op_le, Op_ge, Op_lt, Op_gt, Op_eq>>

\* A pattern without the optional separator: (.*)$ takes everything.
MatchOperatorRestNoSeparator(rest) ==
  IF \A i \in 1..Len(rest) : ~IsLineTerminator(rest[i]) THEN Some(rest) ELSE None

\* [:\s]?(.*)$ on what follows the operator: None, or Some(the text (.*) captured).
MatchOperatorRest(rest) ==
  LET noLT(s) == \A i \in 1..Len(s) : ~IsLineTerminator(s[i])
  IN IF rest # <<>> /\ (rest[1] = ":" \/ IsSpace(rest[1])) /\ noLT(Tail(rest))
     THEN Some(Tail(rest))
     ELSE IF noLT(rest) THEN Some(rest) ELSE None

\* input.match(/^(<=|>=|<|>|=)[:\s]?(.*)$/): None, or Some(<<m[1], m[2]>>).
MatchOperator(input) ==
  LET hits == {k \in 1..Len(SortOperators) :
                 /\ StartsWith(input, SortOperators[k])
                 /\ IsSome(MatchOperatorRest(
                      SubSeq(input, Len(SortOperators[k]) + 1, Len(input))))}
  IN IF hits = {} THEN None ELSE
     LET op == SortOperators[Min(hits)]
     IN Some(<<op, Get(MatchOperatorRest(SubSeq(input, Len(op) + 1, Len(input))))>>)

\* The outcome of a call: a returned value, or a thrown Error.
Returned(v) == [ok |-> TRUE, value |-> v]
Thrown(msg) == [ok |-> FALSE, error |-> msg]

\* A sortKey object that never carries a second value.
SortClauseOneValue(name, operator, value, value2) ==
  [name |-> name, operator |-> operator, value |-> value, value2 |-> None]

\* The sortKey object of QueryOptions; value2 is optional.
SortClause(name, operator, value, value2) ==
  [name |-> name, operator |-> operator, value |-> value, value2 |-> value2]

\* filter-options.ts:73-119, the branches on the form of the sort token.
ParseSortToken(input, name) ==
  IF TestBetween(input) THEN
    LET m == MatchBetween(input)
    IN IF ~IsSome(m) THEN Thrown("Invalid between format. Use: between(val1,val2)")
       ELSE Returned(SortClause(name, Lit_between,
                                StrVal(Trim(Get(m)[1])), Some(StrVal(Trim(Get(m)[2])))))
  ELSE IF TestBeginsWith(input) THEN
    LET m == MatchBeginsWith(input)
    IN IF ~IsSome(m) THEN Thrown("Invalid begins_with format. Use: begins_with(prefix)")
       ELSE Returned(SortClause(name, Lit_begins_with,
                                StrVal(StripQuotes(Trim(Get(m)))), None))
  ELSE
    LET operatorMatch == MatchOperator(input)
    IN IF IsSome(operatorMatch)
       THEN Returned(SortClause(name, Get(operatorMatch)[1],
                                StrVal(Trim(Get(operatorMatch)[2])), None))
       ELSE Returned(SortClause(name, Op_eq, StrVal(input), None))

----------------------------------------------------------------------------
(* normalizeFilterExpression and parseValue *)

DigitChars == {"0","1","2","3","4","5","6","7","8","9"}

\* A \w that also takes the placeholder marks.
IsWordOrMark(c) ==
  \/ c \in DigitChars \cup {"_", "#", ":"}
  \/ \E i \in 1..26 : c = UpperLetters[i] \/ c = LowerLetters[i]

\* JavaScript's \w
IsWord(c) ==
  \/ c \in DigitChars
  \/ c = "_"
  \/ \E i \in 1..26 : c = UpperLetters[i] \/ c = LowerLetters[i]

\* The length of the longest run of \s characters that starts at s[from].
SpaceRun(s, from) ==
  LET stops == {i \in from..Len(s) : ~IsSpace(s[i])}
  IN IF stops = {} THEN Len(s) - from + 1 ELSE Min(stops) - from

\* The length of the longest run of \w characters that starts at s[from].
WordRun(s, from) ==
  LET stops == {i \in from..Len(s) : ~IsWord(s[i])}
  IN IF stops = {} THEN Len(s) - from + 1 ELSE Min(stops) - from

NoLineTerminator(s) == \A i \in 1..Len(s) : ~IsLineTerminator(s[i])

From(s, i) == SubSeq(s, i, Len(s))

\* \s*(.+)$ on s: None, or Some(the text (.+) captured).  \s* is greedy and gives
\* back what (.+) needs; `.` matches no line terminator.
MatchSpacesThenRest(s) ==
  LET w == SpaceRun(s, 1)
      ks == {k \in 0..w : k < Len(s) /\ NoLineTerminator(From(s, k + 1))}
  IN IF ks = {} THEN None ELSE Some(From(s, Max(ks) + 1))

\* \s*(.+)\)$ on s: None, or Some(the text (.+) captured).
MatchSpacesThenRestParen(s) ==
  IF s = <<>> THEN None
  ELSE IF s[Len(s)] # ")" THEN None
  ELSE MatchSpacesThenRest(SubSeq(s, 1, Len(s) - 1))

\* ^keyword\((\w+)  on s, keyword matched case-insensitively: None, or
\* Some(<<field, index of the first character after the field>>).
MatchCallField(s, keywordParen) ==
  IF ~StartsWithCI(s, keywordParen) THEN None ELSE
  LET from == Len(keywordParen) + 1
      n == WordRun(s, from)
  IN IF n = 0 THEN None ELSE Some(<<SubSeq(s, from, from + n - 1), from + n>>)

\* \s*,  at s[from]: 0, or the index of the first character after the comma.
AfterSpacesComma(s, from) ==
  LET i == from + SpaceRun(s, from)
  IN IF i <= Len(s) /\ s[i] = "," THEN i + 1 ELSE 0

Lit_true == <<"t","r","u","e">>
Lit_false == <<"f","a","l","s","e">>
Lit_null == <<"n","u","l","l">>
Lit_AND == <<"A","N","D">>
Lit_OR == <<"O","R">>
Lit_IN == <<"I","N">>
Lit_attribute_existsParen == <<"a","t","t","r","i","b","u","t","e","_","e","x","i","s","t","s","(">>
Lit_attribute_not_existsParen == <<"a","t","t","r","i","b","u","t","e","_","n","o","t","_","e","x","i","s","t","s","(">>
Lit_containsParen == <<"c","o","n","t","a","i","n","s","(">>
Lit_sizeParen == <<"s","i","z","e","(">>
Lit_between1 == <<"_","b","e","t","w","e","e","n","1">>
Lit_between2 == <<"_","b","e","t","w","e","e","n","2">>
Lit_size == <<"_","s","i","z","e">>
Lit_in == <<"_","i","n">>
Lit_BETWEEN == <<" ","B","E","T","W","E","E","N"," ">>
Lit_ANDspaced == <<" ","A","N","D"," ">>
Lit_INopen == <<" ","I","N"," ","(">>
Lit_commaSpace == <<","," ">>
Op_ne == <<"!","=">>

\* Number.prototype.toString of a number written as sign, integer digits and
\* fraction digits (within the precision of a double): no leading zeros, no
\* trailing fraction zeros, and zero has no sign.
CanonicalNumber(negative, intDigits, fracDigits) ==
  LET nzI == {i \in 1..Len(intDigits) : intDigits[i] # "0"}
      nzF == {i \in 1..Len(fracDigits) : fracDigits[i] # "0"}
      int == IF nzI = {} THEN <<"0">> ELSE From(intDigits, Min(nzI))
      frac == IF nzF = {} THEN <<>> ELSE SubSeq(fracDigits, 1, Max(nzF))
      sign == IF negative /\ (nzI # {} \/ nzF # {}) THEN <<"-">> ELSE <<>>
  IN sign \o int \o (IF frac = <<>> THEN <<>> ELSE <<".">> \o frac)

\* filter-options.ts:304-318.  A value is a record of its JavaScript type and
\* its text: "boolean", "null", "number" (parseInt and parseFloat both give a
\* number) or "string".
parseValue(val) ==
  LET unsigned == IF StartsWith(val, <<"-">>) THEN Tail(val) ELSE val
      digits(s) == s # <<>> /\ \A i \in 1..Len(s) : s[i] \in DigitChars
      dots == {i \in 1..Len(unsigned) : unsigned[i] = "."}
  IN IF val = Lit_true THEN [t |-> "boolean", v |-> Lit_true]
     ELSE IF val = Lit_false THEN [t |-> "boolean", v |-> Lit_false]
     ELSE IF val = Lit_null THEN [t |-> "null", v |-> Lit_null]
     ELSE IF digits(unsigned)
       THEN [t |-> "number", v |-> CanonicalNumber(unsigned # val, unsigned, <<>>)]
     ELSE IF /\ Cardinality(dots) = 1
             /\ digits(SubSeq(unsigned, 1, Min(dots) - 1))
             /\ digits(From(unsigned, Min(dots) + 1))
       THEN [t |-> "number",
             v |-> CanonicalNumber(unsigned # val, SubSeq(unsigned, 1, Min(dots) - 1),
                                   From(unsigned, Min(dots) + 1))]
     ELSE StrVal(val)

\* A JavaScript object used as a map from strings: a set of <<key, value>> pairs
\* with at most one pair per key.
EmptyMap == {}
MapKeys(m) == {e[1] : e \in m}
MapHas(m, k) == k \in MapKeys(m)
MapGet(m, k) == (CHOOSE e \in m : e[1] = k)[2]
MapPut(m, k, v) == {e \in m : e[1] # k} \cup {<<k, v>>}

\* Placeholders numbered from one.
NatToStringOneBased(n) == <<<<"1">>, <<"2">>, <<"3">>, <<"4">>, <<"5">>, <<"6">>, <<"7">>>>[n + 1]

\* The decimal text of a natural number (a template literal's ${idx}).
RECURSIVE NatToString(_)
NatToString(n) ==
  LET d == <<"0","1","2","3","4","5","6","7","8","9">>[(n % 10) + 1]
  IN IF n < 10 THEN <<d>> ELSE NatToString(n \div 10) \o <<d>>

\* Array.prototype.join
RECURSIVE Join(_, _)
Join(strs, sep) ==
  IF strs = <<>> THEN <<>>
  ELSE IF Len(strs) = 1 THEN strs[1]
  ELSE strs[1] \o sep \o Join(Tail(strs), sep)

\* String.prototype.split(",")
RECURSIVE SplitComma(_)
SplitComma(s) ==
  LET commas == {i \in 1..Len(s) : s[i] = ","}
  IN IF commas = {} THEN <<s>>
     ELSE <<SubSeq(s, 1, Min(commas) - 1)>> \o SplitComma(From(s, Min(commas) + 1))

\* The separator match \s+(?:AND|OR)\s+ (flag i) starting at s[i]: 0, or the
\* index of its last character.
SeparatorEnd(s, i) ==
  IF ~IsSpace(s[i]) THEN 0 ELSE
  LET j == i + SpaceRun(s, i)
      word == IF StartsWithCI(From(s, j), Lit_AND) THEN Len(Lit_AND)
              ELSE IF StartsWithCI(From(s, j), Lit_OR) THEN Len(Lit_OR)
              ELSE 0
      k == j + word
  IN IF word = 0 \/ k > Len(s) THEN 0
     ELSE IF ~IsSpace(s[k]) THEN 0
     ELSE k + SpaceRun(s, k) - 1

\* filter.split(/(\s+(?:AND|OR)\s+)/i): the texts between the separators and
\* the separators themselves, alternating.
RECURSIVE SplitAndOr(_)
SplitAndOr(s) ==
  LET starts == {i \in 1..Len(s) : SeparatorEnd(s, i) > 0}
  IN IF starts = {} THEN <<s>>
     ELSE LET i == Min(starts)
              e == SeparatorEnd(s, i)
          IN <<SubSeq(s, 1, i - 1), SubSeq(s, i, e)>> \o SplitAndOr(From(s, e + 1))

\* The alternatives of (=|!=|<=|>=|<|>), in the order the regular expression tries them.
FilterOperators == <<Op_eq, Op_ne, Op_le, Op_ge, Op_lt, Op_gt>>

\* (=|!=|<=|>=|<|>)\s*(.+)$ on s: None, or Some(<<operator, text (.+) captured>>).
\* An alternative whose rest does not match gives way to the next one.
MatchOperatorValue(s) ==
  LET hits == {k \in 1..Len(FilterOperators) :
                 /\ StartsWith(s, FilterOperators[k])
                 /\ IsSome(MatchSpacesThenRest(From(s, Len(FilterOperators[k]) + 1)))}
  IN IF hits = {} THEN None ELSE
     LET op == FilterOperators[Min(hits)]
     IN Some(<<op, Get(MatchSpacesThenRest(From(s, Len(op) + 1)))>>)

\* What a recognizer hands back: the rewritten clause and the attribute
\* assignments it made, in order.
Rewritten(expression, assignments) ==
  Some([expression |-> expression, assignments |-> assignments])

\* filter-options.ts:162-166 and 169-173: ^keyword\((\w+)\)$
RecognizeExists(trimmed, keywordParen) ==
  LET m == MatchCallField(trimmed, keywordParen)
  IN IF ~IsSome(m) THEN None
     ELSE IF From(trimmed, Get(m)[2]) # <<")">> THEN None
     ELSE Rewritten(keywordParen \o <<"#">> \o Get(m)[1] \o <<")">>, <<>>)

\* filter-options.ts:176-189 and 192-205: ^keyword\((\w+)\s*,\s*(.+)\)$
RecognizeCall2(trimmed, keywordParen) ==
  LET m == MatchCallField(trimmed, keywordParen)
  IN IF ~IsSome(m) THEN None ELSE
     LET field == Get(m)[1]
         a == AfterSpacesComma(trimmed, Get(m)[2])
     IN IF a = 0 THEN None ELSE
        LET g == MatchSpacesThenRestParen(From(trimmed, a))
        IN IF ~IsSome(g) THEN None
           ELSE Rewritten(keywordParen \o <<"#">> \o field \o Lit_commaSpace
                            \o <<":">> \o field \o <<")">>,
                          <<<<field, parseValue(StripQuotes(Trim(Get(g))))>>>>)

\* filter-options.ts:208-231: ^between\((\w+)\s*,\s*([^,]+)\s*,\s*(.+)\)$
\* ([^,]+) and the \s* around it cover the text between the first two commas,
\* which must not be empty; val1 is that text trimmed.
RecognizeBetween(trimmed) ==
  LET m == MatchCallField(trimmed, Lit_betweenParen)
  IN IF ~IsSome(m) THEN None ELSE
     LET field == Get(m)[1]
         a == AfterSpacesComma(trimmed, Get(m)[2])
         commas == {i \in a..Len(trimmed) : trimmed[i] = ","}
     IN IF a = 0 \/ commas = {} THEN None
        ELSE IF Min(commas) = a THEN None ELSE
        LET val1 == StripQuotes(Trim(SubSeq(trimmed, a, Min(commas) - 1)))
            g == MatchSpacesThenRestParen(From(trimmed, Min(commas) + 1))
        IN IF ~IsSome(g) THEN None
           ELSE Rewritten(<<"#">> \o field \o Lit_BETWEEN \o <<":">> \o field \o Lit_between1
                            \o Lit_ANDspaced \o <<":">> \o field \o Lit_between2,
                          << <<field \o Lit_between1, parseValue(val1)>>,
                             <<field \o Lit_between2,
                               parseValue(StripQuotes(Trim(Get(g))))>> >>)

\* filter-options.ts:234-250: ^size\((\w+)\)\s*(=|!=|<=|>=|<|>)\s*(.+)$
RecognizeSize(trimmed) ==
  LET m == MatchCallField(trimmed, Lit_sizeParen)
  IN IF ~IsSome(m) THEN None ELSE
     LET field == Get(m)[1]
         i == Get(m)[2]
     IN IF i > Len(trimmed) THEN None
        ELSE IF trimmed[i] # ")" THEN None ELSE
        LET j == i + 1 + SpaceRun(trimmed, i + 1)
            g == MatchOperatorValue(From(trimmed, j))
        IN IF ~IsSome(g) THEN None
           ELSE Rewritten(Lit_sizeParen \o <<"#">> \o field \o <<")", " ">> \o Get(g)[1]
                            \o <<" ", ":">> \o field \o Lit_size,
                          <<<<field \o Lit_size, parseValue(StripQuotes(Trim(Get(g)[2])))>>>>)

\* filter-options.ts:253-276: ^(\w+)\s+IN\s*\((.+)\)$
RecognizeIn(trimmed) ==
  LET n == WordRun(trimmed, 1)
      w == SpaceRun(trimmed, n + 1)
      afterIn == n + w + Len(Lit_IN) + 1
      open == afterIn + SpaceRun(trimmed, afterIn)
  IN IF n = 0 \/ w = 0 \/ ~StartsWithCI(From(trimmed, n + w + 1), Lit_IN) THEN None
     ELSE IF open >= Len(trimmed) THEN None
     ELSE IF trimmed[open] # "(" \/ trimmed[Len(trimmed)] # ")" THEN None ELSE
     LET field == SubSeq(trimmed, 1, n)
         valuesStr == SubSeq(trimmed, open + 1, Len(trimmed) - 1)
         pieces == SplitComma(valuesStr)
         values == [x \in 1..Len(pieces) |-> parseValue(StripQuotes(Trim(pieces[x])))]
         placeholder(x) == field \o Lit_in \o NatToString(x - 1)
     IN IF valuesStr = <<>> \/ ~NoLineTerminator(valuesStr) THEN None
        ELSE Rewritten(<<"#">> \o field \o Lit_INopen
                         \o Join([x \in 1..Len(pieces) |-> <<":">> \o placeholder(x)],
                                 Lit_commaSpace)
                         \o <<")">>,
                       [x \in 1..Len(pieces) |-> <<placeholder(x), values[x]>>])

\* A comparison recognizer that emits the attribute name without the # mark.
RecognizeComparisonBare(trimmed) ==
  LET n == WordRun(trimmed, 1)
      j == n + 1 + SpaceRun(trimmed, n + 1)
      g == MatchOperatorValue(From(trimmed, j))
  IN IF n = 0 THEN None
     ELSE IF ~IsSome(g) THEN None
     ELSE LET field == SubSeq(trimmed, 1, n)
          IN Rewritten(field \o <<" ">> \o Get(g)[1] \o <<" ", ":">> \o field,
                       <<<<field, parseValue(StripQuotes(Trim(Get(g)[2])))>>>>)

\* filter-options.ts:279-295: ^(\w+)\s*(=|!=|<=|>=|<|>)\s*(.+)$
RecognizeComparison(trimmed) ==
  LET n == WordRun(trimmed, 1)
      j == n + 1 + SpaceRun(trimmed, n + 1)
      g == MatchOperatorValue(From(trimmed, j))
  IN IF n = 0 THEN None
     ELSE IF ~IsSome(g) THEN None
     ELSE LET field == SubSeq(trimmed, 1, n)
          IN Rewritten(<<"#">> \o field \o <<" ">> \o Get(g)[1] \o <<" ", ":">> \o field,
                       <<<<field, parseValue(StripQuotes(Trim(Get(g)[2])))>>>>)

\* The recognizers in the order the callback of parts.map tries them
\* (filter-options.ts:155-299); the first that matches decides.
Recognizers(trimmed) ==
  << RecognizeExists(trimmed, Lit_attribute_existsParen),
     RecognizeExists(trimmed, Lit_attribute_not_existsParen),
     RecognizeCall2(trimmed, Lit_begins_withParen),
     RecognizeCall2(trimmed, Lit_containsParen),
     RecognizeBetween(trimmed),
     RecognizeSize(trimmed),
     RecognizeIn(trimmed),
     RecognizeComparison(trimmed) >>

\* A callback that returns the trimmed part when no recognizer matches.
FirstMatchTrimmed(part, trimmed, found) ==
  LET hits == {k \in 1..Len(found) : IsSome(found[k])}
  IN IF LowerCase(trimmed) \in {LowerCase(Lit_AND), LowerCase(Lit_OR)} \/ hits = {}
     THEN [expression |-> trimmed, assignments |-> <<>>]
     ELSE Get(found[Min(hits)])

\* The outcome of the callback once the recognizers have been tried: the
\* first match, or the part itself (untrimmed) when none matched.
FirstMatch(part, trimmed, found) ==
  LET hits == {k \in 1..Len(found) : IsSome(found[k])}
  IN IF LowerCase(trimmed) \in {LowerCase(Lit_AND), LowerCase(Lit_OR)}
     THEN [expression |-> trimmed, assignments |-> <<>>]
     ELSE IF hits = {} THEN [expression |-> part, assignments |-> <<>>]
     ELSE Get(found[Min(hits)])

\* One call of the callback of parts.map: the text it returns and the
\* assignments it makes to `attributes`.
NormalizePart(part) == FirstMatch(part, Trim(part), Recognizers(Trim(part)))

\* `attributes` after the assignments made in order (a later one overwrites).
RECURSIVE Assign(_, _)
Assign(attributes, assignments) ==
  IF assignments = <<>> THEN attributes
  ELSE Assign(MapPut(attributes, assignments[1][1], assignments[1][2]), Tail(assignments))

\* filter-options.ts:301: parsedParts.join(" ") and the attributes collected.
Assemble(parsedParts) ==
  [expression |->
     Join([i \in 1..Len(parsedParts) |-> parsedParts[i].expression], <<" ">>),
   attributes |->
     Assign(EmptyMap,
            Join([i \in 1..Len(parsedParts) |-> parsedParts[i].assignments], <<>>))]

\* filter-options.ts:155: parts.map
MapParts(parts) == [i \in 1..Len(parts) |-> NormalizePart(parts[i])]

\* filter-options.ts:146-302
normalizeFilterExpression(filter) == Assemble(MapParts(SplitAndOr(filter)))

----------------------------------------------------------------------------
(* parseFilterOptions *)

\* The truthiness test `if (options.x)` on an optional string: undefined and
\* the empty string are falsy.
Truthy(o) == IsSome(o) /\ Get(o) # <<>>

\* QueryOptions (util.ts:32-38); every field is optional.
EmptyQuery ==
  [partitionKey |-> None, sortKey |-> None, indexName |-> None,
   filterExpression |-> None, filterAttributes |-> None]

\* A compiler that trims the partition token and coerces it like a filter literal.
WithPartitionKeyCoerced(queryOptions, opts, schema) ==
  IF Truthy(opts.partitionKey)
  THEN [queryOptions EXCEPT !.partitionKey =
          Some([name |-> schema.partitionKey,
                value |-> parseValue(Trim(Get(opts.partitionKey)))])]
  ELSE queryOptions

\* filter-options.ts:48-56
WithPartitionKey(queryOptions, opts, schema) ==
  IF Truthy(opts.partitionKey)
  THEN [queryOptions EXCEPT !.partitionKey =
          Some([name |-> schema.partitionKey, value |-> StrVal(Get(opts.partitionKey))])]
  ELSE queryOptions

\* filter-options.ts:67-69
SortKeyMissing(schema) == ~Truthy(schema.sortKey)

\* A compiler that drops the sort token of a table without a sort key.
SortKeyStepSkips(opts, schema) ==
  IF ~Truthy(opts.sortKey) \/ SortKeyMissing(schema) THEN Returned(None)
  ELSE LET r == ParseSortToken(Get(opts.sortKey), Get(schema.sortKey))
       IN IF r.ok THEN Returned(Some(r.value)) ELSE r

\* filter-options.ts:64-120: the sortKey clause to set (None when the token is
\* absent), or the Error thrown.
SortKeyStep(opts, schema) ==
  IF ~Truthy(opts.sortKey) THEN Returned(None)
  ELSE IF SortKeyMissing(schema) THEN Thrown("Table does not have a sort key")
  ELSE LET r == ParseSortToken(Get(opts.sortKey), Get(schema.sortKey))
       IN IF r.ok THEN Returned(Some(r.value)) ELSE r

\* filter-options.ts:123-125
WithIndex(queryOptions, opts) ==
  IF Truthy(opts.index) THEN [queryOptions EXCEPT !.indexName = opts.index]
  ELSE queryOptions

\* filter-options.ts:134-135
SetFilter(queryOptions, normalized) ==
  [queryOptions EXCEPT !.filterExpression = Some(normalized.expression),
                       !.filterAttributes = Some(normalized.attributes)]

\* filter-options.ts:128-136
WithFilter(queryOptions, opts) ==
  IF Truthy(opts.filter)
  THEN SetFilter(queryOptions, normalizeFilterExpression(Get(opts.filter)))
  ELSE queryOptions

\* filter-options.ts:38-139: the QueryOptions returned, or the Error thrown.
parseFilterOptions(opts, schema) ==
  LET sk == SortKeyStep(opts, schema)
  IN IF ~sk.ok THEN sk
     ELSE Returned(WithFilter(WithIndex(
            [WithPartitionKey(EmptyQuery, opts, schema) EXCEPT !.sortKey = sk.value],
            opts), opts))

----------------------------------------------------------------------------
(* queryTable: building the request (util.ts:79-145) *)

\* util.ts:100-126: the text appended to KeyConditionExpression for the sort
\* key, or None for an operator the switch does not list.
SortCondition(sortKey) ==
  LET skPlaceholder == <<"#">> \o sortKey.name
      skValuePlaceholder == <<":">> \o sortKey.name
  IN IF sortKey.operator \in {Op_eq, Op_lt, Op_le, Op_gt, Op_ge}
     THEN Some(Lit_ANDspaced \o skPlaceholder \o <<" ">> \o sortKey.operator \o <<" ">>
                 \o skValuePlaceholder)
     ELSE IF sortKey.operator = Lit_begins_with
     THEN Some(Lit_ANDspaced \o Lit_begins_withParen \o skPlaceholder \o Lit_commaSpace
                 \o skValuePlaceholder \o <<")">>)
     ELSE IF sortKey.operator = Lit_between
     THEN Some(Lit_ANDspaced \o skPlaceholder \o Lit_BETWEEN \o skValuePlaceholder
                 \o Lit_ANDspaced \o skValuePlaceholder \o <<"2">>)
     ELSE None

\* util.ts:119-121: operator between defines a second value placeholder.
SortValues(values, sortKey) ==
  LET first == MapPut(values, <<":">> \o sortKey.name, sortKey.value)
  IN IF sortKey.operator = Lit_between
     THEN MapPut(first, <<":">> \o sortKey.name \o <<"2">>,
                 IF IsSome(sortKey.value2) THEN Get(sortKey.value2)
                 ELSE [t |-> "undefined", v |-> <<>>])
     ELSE first

\* util.ts:86-128: KeyConditionExpression and the two placeholder maps after
\* the key clauses, or the Error thrown.
KeyCondition(query) ==
  IF ~IsSome(query.partitionKey)
  THEN Returned([KeyConditionExpression |-> None,
                 ExpressionAttributeNames |-> EmptyMap,
                 ExpressionAttributeValues |-> EmptyMap])
  ELSE
    LET partitionKey == Get(query.partitionKey)
        pkPlaceholder == <<"#">> \o partitionKey.name
        pkValuePlaceholder == <<":">> \o partitionKey.name
        names == MapPut(EmptyMap, pkPlaceholder, partitionKey.name)
        values == MapPut(EmptyMap, pkValuePlaceholder, partitionKey.value)
        kce == pkPlaceholder \o <<" ", "=", " ">> \o pkValuePlaceholder
    IN IF ~IsSome(query.sortKey)
       THEN Returned([KeyConditionExpression |-> Some(kce),
                      ExpressionAttributeNames |-> names,
                      ExpressionAttributeValues |-> values])
       ELSE
         LET sortKey == Get(query.sortKey)
         IN IF ~IsSome(SortCondition(sortKey))
            THEN Thrown("Unsupported sort key operator")
            ELSE Returned(
                   [KeyConditionExpression |-> Some(kce \o Get(SortCondition(sortKey))),
                    ExpressionAttributeNames |->
                      MapPut(names, <<"#">> \o sortKey.name, sortKey.name),
                    ExpressionAttributeValues |-> SortValues(values, sortKey)])

\* util.ts:131-145: the loop over Object.entries(filterAttributes).  A value is
\* always written; a name only when the placeholder has no (truthy) name yet.
RECURSIVE MergeFilterAttributes(_, _)
MergeFilterAttributes(built, entries) ==
  IF entries = {} THEN built ELSE
  LET e == CHOOSE x \in entries : TRUE
      valuePlaceholder == <<":">> \o e[1]
      namePlaceholder == <<"#">> \o e[1]
      names == built.ExpressionAttributeNames
      unnamed == ~MapHas(names, namePlaceholder) \/ MapGet(names, namePlaceholder) = <<>>
  IN MergeFilterAttributes(
       [built EXCEPT
          !.ExpressionAttributeValues = MapPut(@, valuePlaceholder, e[2]),
          !.ExpressionAttributeNames =
             IF unnamed THEN MapPut(@, namePlaceholder, e[1]) ELSE @],
       entries \ {e})

\* A generator body that defines the sort key's value placeholders even when
\* there is no partitionKey clause.
PrepareWithSortValues(query) ==
  LET k == KeyCondition(query)
      s == IF k.ok /\ ~IsSome(query.partitionKey) /\ IsSome(query.sortKey)
           THEN Returned([k.value EXCEPT
                            !.ExpressionAttributeValues = SortValues(@, Get(query.sortKey))])
           ELSE k
  IN IF ~s.ok THEN s
     ELSE IF IsSome(query.filterAttributes)
     THEN Returned(MergeFilterAttributes(s.value, Get(query.filterAttributes)))
     ELSE s

\* util.ts:71-145: the generator body up to the do loop.
Prepare(query) ==
  LET k == KeyCondition(query)
  IN IF ~k.ok THEN k
     ELSE IF IsSome(query.filterAttributes)
     THEN Returned(MergeFilterAttributes(k.value, Get(query.filterAttributes)))
     ELSE k

\* A reader that always queries.
UseQueryAlways(kce) == TRUE

\* util.ts:150: `KeyConditionExpression ? QueryCommand : ScanCommand`
UseQuery(kce) == Truthy(kce)

\* util.ts:156-161 and 169-174: a placeholder map is sent only when it has keys.
SentMap(m) == IF Cardinality(MapKeys(m)) > 0 THEN Some(m) ELSE None

\* util.ts:149-178: the command sent for one page.  A ScanCommand is given
\* neither IndexName nor KeyConditionExpression.
ReadRequest(TableName, query, kce, names, values, cursor) ==
  IF UseQuery(kce)
  THEN [command |-> "Query", TableName |-> TableName, IndexName |-> query.indexName,
        KeyConditionExpression |-> kce,
        ExpressionAttributeNames |-> SentMap(names),
        ExpressionAttributeValues |-> SentMap(values),
        FilterExpression |-> query.filterExpression,
        ExclusiveStartKey |-> cursor]
  ELSE [command |-> "Scan", TableName |-> TableName, IndexName |-> None,
        KeyConditionExpression |-> None,
        ExpressionAttributeNames |-> SentMap(names),
        ExpressionAttributeValues |-> SentMap(values),
        FilterExpression |-> query.filterExpression,
        ExclusiveStartKey |-> cursor]

\* A page handed out last item first.
PageItemsReversed(resp) ==
  IF IsSome(resp.Items)
  THEN [i \in 1..Len(Get(resp.Items)) |-> Get(resp.Items)[Len(Get(resp.Items)) + 1 - i]]
  ELSE <<>>

\* util.ts:179: `response.Items || []`
PageItems(resp) == IF IsSome(resp.Items) THEN Get(resp.Items) ELSE <<>>

\* A loop that hands out no item of a page.
HasItemAfterNever(items, i) == FALSE

\* util.ts:179: the for...of loop has another item after position i.
HasItemAfter(items, i) == i < Len(items)

\* A cursor that, once set, is never replaced by a later response's.
CursorAfterStale(previous, resp) ==
  IF IsSome(previous) THEN previous ELSE resp.LastEvaluatedKey

\* util.ts:182: `lastEvaluatedKey = response.LastEvaluatedKey`
CursorAfter(previous, resp) == resp.LastEvaluatedKey

\* A loop that never reads a second page.
LoopAgainNever(cursor) == FALSE

\* util.ts:183: `while (lastEvaluatedKey)`
LoopAgain(cursor) == IsSome(cursor)

----------------------------------------------------------------------------
(* queryTable as a generator, its consumer and the store *)

\* The queryTable calls of the model.
Traversals == {1, 2}

\* The response a generator holds before its first read has been answered.
NoResponse == [kind |-> "page", Items |-> None, LastEvaluatedKey |-> None]

\* A rejected send.
FailedResponse == [kind |-> "error", Items |-> None, LastEvaluatedKey |-> None]

\* One cursor shared by all calls.
SharedCursor(t) == lastEvaluatedKey[1]

\* util.ts:79: lastEvaluatedKey is a local variable of each call.
OwnCursor(t) == lastEvaluatedKey[t]

\* util.ts:151 and 166: the generator sends one command and awaits the answer.
SendRead(t, kce, names, values) ==
  /\ requests' = [requests EXCEPT ![t] =
       Append(@, ReadRequest(options[t].TableName, options[t].query,
                             kce, names, values, OwnCursor(t)'))]
  /\ pc' = [pc EXCEPT ![t] = "awaiting"]
  /\ pending' = [pending EXCEPT ![t] = TRUE]
  /\ UNCHANGED <<outcome, yielded>>

\* util.ts:180: `yield item` settles the consumer's next() with the item.
YieldItem(t, item) ==
  /\ yielded' = [yielded EXCEPT ![t] = Append(@, item)]
  /\ pc' = [pc EXCEPT ![t] = "yielded"]
  /\ pending' = [pending EXCEPT ![t] = FALSE]
  /\ outcome' = [outcome EXCEPT ![t] = "value"]
  /\ UNCHANGED requests

\* The generator ends: by falling out of the loop (util.ts:183-184) or by an
\* uncaught Error.  The consumer's next() settles accordingly.
Finish(t, how) ==
  /\ pc' = [pc EXCEPT ![t] = how]
  /\ pending' = [pending EXCEPT ![t] = FALSE]
  /\ outcome' = [outcome EXCEPT ![t] = IF how = "threw" THEN "rejected" ELSE "done"]
  /\ UNCHANGED <<yielded, requests>>

\* util.ts:182-183 after the last item of a page: take the cursor, then read
\* again or end.
EndOfPage(t, resp) ==
  LET cursor == CursorAfter(lastEvaluatedKey[t], resp)
  IN /\ lastEvaluatedKey' = [lastEvaluatedKey EXCEPT ![t] = cursor]
     /\ IF LoopAgain(cursor)
        THEN SendRead(t, KeyConditionExpression[t], ExpressionAttributeNames[t],
                      ExpressionAttributeValues[t])
        ELSE Finish(t, "done")

\* util.ts:67-70: calling queryTable creates the generator; nothing of its
\* body runs before the first next().
Call(t, tables, queries) ==
  /\ pc[t] = "none"
  /\ \E TableName \in tables, query \in queries :
       options' = [options EXCEPT ![t] = [TableName |-> TableName, query |-> query]]
  /\ pc' = [pc EXCEPT ![t] = "created"]
  /\ UNCHANGED <<parseVars, cmdVars, envVars, lastEvaluatedKey, KeyConditionExpression,
                 ExpressionAttributeNames, ExpressionAttributeValues, response, idx, ioVars>>

\* The consumer's first next(): util.ts:71-178 up to the first await.
Start(t) ==
  /\ pc[t] = "created" /\ ~pending[t]
  /\ LET p == Prepare(options[t].query)
     IN IF ~p.ok
        THEN /\ Finish(t, "threw")
             /\ UNCHANGED <<lastEvaluatedKey, KeyConditionExpression,
                            ExpressionAttributeNames, ExpressionAttributeValues>>
        ELSE /\ lastEvaluatedKey' = [lastEvaluatedKey EXCEPT ![t] = None]
             /\ KeyConditionExpression' =
                  [KeyConditionExpression EXCEPT ![t] = p.value.KeyConditionExpression]
             /\ ExpressionAttributeNames' =
                  [ExpressionAttributeNames EXCEPT ![t] = p.value.ExpressionAttributeNames]
             /\ ExpressionAttributeValues' =
                  [ExpressionAttributeValues EXCEPT ![t] = p.value.ExpressionAttributeValues]
             /\ SendRead(t, p.value.KeyConditionExpression, p.value.ExpressionAttributeNames,
                         p.value.ExpressionAttributeValues)
  /\ UNCHANGED <<parseVars, cmdVars, envVars, options, response, idx, responses>>

\* A later next() while the generator is suspended at `yield` (util.ts:179-183).
Resume(t) ==
  /\ pc[t] = "yielded" /\ ~pending[t]
  /\ IF HasItemAfter(PageItems(response[t]), idx[t])
     THEN /\ YieldItem(t, PageItems(response[t])[idx[t] + 1])
          /\ idx' = [idx EXCEPT ![t] = @ + 1]
          /\ UNCHANGED lastEvaluatedKey
     ELSE /\ EndOfPage(t, response[t])
          /\ UNCHANGED idx
  /\ UNCHANGED <<parseVars, cmdVars, envVars, options, KeyConditionExpression, ExpressionAttributeNames,
                 ExpressionAttributeValues, response, responses>>

\* next() on a generator that has returned or thrown settles with done.
NextAfterEnd(t) ==
  /\ pc[t] \in {"done", "threw"} /\ ~pending[t]
  /\ outcome' = [outcome EXCEPT ![t] = "done"]
  /\ UNCHANGED <<parseVars, cmdVars, envVars, genVars, pending, yielded, requests, responses>>

\* The store answers the outstanding read with a page (util.ts:149-183 after
\* the await).  The answer to read number maxPages carries no cursor.
Respond(t, maxPages, pages, cursors) ==
  /\ pc[t] = "awaiting"
  /\ \E items \in pages, cursor \in {None} \cup {Some(c) : c \in cursors} :
       LET resp == [kind |-> "page", Items |-> items, LastEvaluatedKey |-> cursor]
       IN /\ Len(responses[t]) + 1 >= maxPages => cursor = None
          /\ responses' = [responses EXCEPT ![t] = Append(@, resp)]
          /\ response' = [response EXCEPT ![t] = resp]
          /\ IF HasItemAfter(PageItems(resp), 0)
             THEN /\ YieldItem(t, PageItems(resp)[1])
                  /\ idx' = [idx EXCEPT ![t] = 1]
                  /\ UNCHANGED lastEvaluatedKey
             ELSE /\ EndOfPage(t, resp)
                  /\ idx' = [idx EXCEPT ![t] = 0]
  /\ UNCHANGED <<parseVars, cmdVars, envVars, options, KeyConditionExpression, ExpressionAttributeNames,
                 ExpressionAttributeValues>>

\* A failed read that is sent again instead of being raised.
FailRetries(t) ==
  /\ pc[t] = "awaiting"
  /\ responses' = [responses EXCEPT ![t] = Append(@, FailedResponse)]
  /\ requests' = [requests EXCEPT ![t] = Append(@, @[Len(@)])]
  /\ UNCHANGED <<parseVars, cmdVars, envVars, genVars, pending, outcome, yielded>>

\* The outstanding read fails: util.ts has no try/catch around the await, so
\* the rejection ends the generator and rejects the consumer's next().
Fail(t) ==
  /\ pc[t] = "awaiting"
  /\ responses' = [responses EXCEPT ![t] = Append(@, FailedResponse)]
  /\ Finish(t, "threw")
  /\ UNCHANGED <<parseVars, cmdVars, envVars, options, lastEvaluatedKey, KeyConditionExpression,
                 ExpressionAttributeNames, ExpressionAttributeValues, response, idx>>

----------------------------------------------------------------------------
(* The inputs of the model *)

\* The largest number of pages the store answers one traversal with.
MaxPages == 3

\* The same, where two traversals are interleaved.
MaxPagesTwo == 2

\* The longest generated part of a sort token.
MaxTail == 3

Str_pk == <<"p","k">>
Str_sk == <<"s","k">>
Str_a == <<"a">>
Str_index == <<"i","x">>
Str_table == <<"t">>
Str_filter == <<"x","=","1">>

FilterCommandOptions(partitionKey, sortKey, index, filter) ==
  [partitionKey |-> partitionKey, sortKey |-> sortKey, index |-> index, filter |-> filter]

AllAbsent == FilterCommandOptions(None, None, None, None)

SchemaNoSort == [partitionKey |-> Str_pk, sortKey |-> None]
SchemaWithSort == [partitionKey |-> Str_pk, sortKey |-> Some(Str_sk)]
Schemas == {SchemaNoSort, SchemaWithSort}

\* Sort tokens: a prefix that selects a branch of the grammar, followed by every
\* string of at most MaxTail characters over TailChars, and some tokens with
\* quotes, line breaks and an attribute name.
TailChars == {"1", ",", ")", " "}
Tails == UNION {[1..n -> TailChars] : n \in 0..MaxTail}
SortPrefixes ==
  {<<>>, Lit_betweenParen, <<"B","e","t","w","e","e","n","(">>, Lit_begins_withParen, Op_ge, Op_lt, Op_eq}
ExtraSortTokens ==
  {<<"b","e","g","i","n","s","_","w","i","t","h","(","'","1","'",")">>,
   <<"b","e","g","i","n","s","_","w","i","t","h","(","'",")">>,
   <<"b","e","g","i","n","s","_","w","i","t","h","(","\"","1",")">>,
   <<"a"," ",">"," ","1">>,
   <<">","=",":","1">>,
   <<">","=","\n","1">>, <<">","=","1","\n","1">>,
   <<"b","e","t","w","e","e","n","(","1",",","\n","5",")">>,
   <<"b","e","t","w","e","e","n","(","1",",","2",",","3",")">>,
   <<"b","e","t","w","e","e","n","(","1",",","5",")">>,
   <<"b","e","t","w","e","e","n","(","1",")">>,
   <<"B","E","T","W","E","E","N","("," ","1",","," ","5"," ",")">>,
   <<"B","e","g","i","n","s","_","W","i","t","h","(","1",")">>}
\* Operator tokens: every operator, every separator the pattern allows, and
\* values with and without blanks, colons, operator characters and line breaks.
SortSeparators == {<<>>, <<" ">>, <<":">>}
OperatorTokens ==
  {op \o sep \o v : op \in {Op_le, Op_ge, Op_lt, Op_gt, Op_eq}, sep \in SortSeparators,
                     v \in {<<"1">>, <<"a"," ","b">>, <<>>, <<"=","1">>, <<":","1">>, <<" ","1">>, <<"1"," ">>, <<"2","0","2","4","-","0","1","-","0","1">>, <<"a","\n","b">>}}
SortTokens ==
  {p \o t : p \in SortPrefixes, t \in Tails} \cup ExtraSortTokens \cup OperatorTokens

\* The partition, index and filter tokens that accompany a sort token.
OtherTokens ==
  {<<None, None, None>>,
   <<Some(Str_a), None, None>>,
   <<Some(<<>>), Some(Str_index), None>>,
   <<None, None, Some(Str_filter)>>,
   <<Some(Str_a), Some(Str_index), Some(Str_filter)>>}

\* Partition tokens that look like operators, literals or padded text.
PartitionTokens ==
  {<<">","=",":","1">>, <<" ","1"," ">>, <<"t","r","u","e">>, <<"1","8">>, <<"'","a","'">>, <<"=","a">>, <<"b","e","t","w","e","e","n","(","1",",","5",")">>}
PartitionInputs ==
  {FilterCommandOptions(Some(pk), sk, None, None) :
     pk \in PartitionTokens, sk \in {None, Some(<<">","1">>)}}

\* The longest IN list generated.
MaxIn == 3

Str_x == <<"x">>
Str_y == <<"y">>

\* Literals as written in a filter clause.
FilterLiterals ==
  {<<"1">>, <<"-","2">>, <<"1",".","5","0">>, <<"-","0",".","5">>, <<"t","r","u","e">>,
   <<"f","a","l","s","e">>, <<"n","u","l","l">>, <<"a">>, <<"'","a","'">>, <<"\"","a","\"">>,
   <<"'","1","8","'">>, <<"'","t","r","u","e","'">>, <<"'","a","\"">>, <<"0","1">>, <<"1",".">>,
   <<"'","'">>, <<"a"," ","b">>}
FewLiterals == {<<"1">>, <<"'","a","'">>, <<"t","r","u","e">>, <<" ","'","b","'"," ">>}
Blanks == {<<>>, <<" ">>}
CommaForms == {<<",">>, <<","," ">>, <<" ",","," ">>}

\* One clause of each shape the normalizer recognizes, over the literals.
ComparisonFilters ==
  {Str_x \o s1 \o op \o s2 \o v :
     op \in {Op_eq, Op_ne, Op_le, Op_ge, Op_lt, Op_gt}, s1 \in Blanks, s2 \in Blanks,
     v \in FilterLiterals}
CallFilters ==
  {kw \o Str_x \o c \o v \o <<")">> :
     kw \in {Lit_begins_withParen, Lit_containsParen}, c \in CommaForms, v \in FilterLiterals}
BetweenFilters ==
  {Lit_betweenParen \o Str_x \o c \o v1 \o c \o v2 \o <<")">> :
     c \in {<<",">>, <<","," ">>}, v1 \in FewLiterals, v2 \in FewLiterals}
SizeFilters ==
  {Lit_sizeParen \o Str_x \o <<")">> \o s1 \o op \o s1 \o v :
     op \in {Op_eq, Op_ne, Op_le, Op_ge, Op_lt, Op_gt}, s1 \in Blanks,
     v \in {<<"1">>, <<"'","1","'">>, <<"a">>}}
ExistsFilters ==
  {kw \o a \o <<")">> :
     kw \in {Lit_attribute_existsParen, Lit_attribute_not_existsParen}, a \in {Str_x, Str_y}}
InLists == UNION {[1..k -> FewLiterals] : k \in 1..MaxIn}
InFilter(attr, word, list) == attr \o word \o <<"(">> \o Join(list, <<",">>) \o <<")">>
InFilters ==
  {InFilter(Str_x, word, list) :
     word \in {<<" ","I","N"," ">>, <<" ","i","n"," ">>, <<" ","I","N">>}, list \in InLists}

\* Expressions that are written with placeholders already.
PlaceholderClauses ==
  {<<"#","x"," ","="," ",":","x">>, <<"#","y"," ",">"," ",":","y">>,
   <<"a","t","t","r","i","b","u","t","e","_","e","x","i","s","t","s","(","#","x",")">>,
   <<"#","x"," ","I","N"," ","(",":","a",","," ",":","b",")">>,
   <<"b","e","g","i","n","s","_","w","i","t","h","(","#","x",","," ",":","x",")">>,
   <<"s","i","z","e","(","#","x",")"," ",">","="," ",":","n">>,
   <<"N","O","T"," ","#","x"," ","="," ",":","x">>,
   <<"#","x"," ","B","E","T","W","E","E","N"," ",":","a"," ","A","N","D"," ",":","b">>}
PaddedPlaceholderClauses == {<<" ","#","x"," ","="," ",":","x"," ">>}
SingleSpaced == {<<" ","A","N","D"," ">>, <<" ","O","R"," ">>, <<" ","a","n","d"," ">>}
WiderSpaced == {<<" "," ","A","N","D"," "," ">>, <<"\t","O","R","\n">>, <<" ","o","r"," "," ">>}
Joined(clauses, separators) ==
  {c1 \o sep \o c2 : c1 \in clauses, c2 \in clauses, sep \in separators}
PlaceholderFilters(clauses, separators) == clauses \cup Joined(clauses, separators)

\* Clauses no recognizer matches, and filters of two clauses.
UnrecognizedFilters ==
  {<<"x"," ","~"," ","1">>, <<"(","x","=","1",")">>, <<" ","x">>, <<"x">>, <<"A","N","D">>,
   <<"O","R"," ">>, <<"=","1">>, <<"x","=">>,
   <<"a","t","t","r","i","b","u","t","e","_","e","x","i","s","t","s","(","x"," ","y",")">>,
   <<"b","e","t","w","e","e","n","(","x",",","1",")">>, <<"s","i","z","e","(","x",")">>,
   <<"x"," ","I","N"," ","(",")">>, <<"x"," ","I","N"," ","(","1">>,
   <<"b","e","g","i","n","s","_","w","i","t","h","(","x",")">>, <<"x","\n","="," ","1">>,
   <<" ","(","x"," ","="," ","1",")"," ">>}
CompoundClauses ==
  {<<"x","=","1">>, <<"x"," ",">"," ","'","a","'">>, <<"y","<","=","2">>,
   <<"a","t","t","r","i","b","u","t","e","_","e","x","i","s","t","s","(","x",")">>,
   <<"s","i","z","e","(","x",")",">","1">>, <<"x"," ","I","N"," ","(","1",",","2",")">>,
   <<"b","e","t","w","e","e","n","(","y",",","1",",","5",")">>,
   <<"c","o","n","t","a","i","n","s","(","x",",","'","a","'",")">>, <<"(","x","=","1",")">>,
   <<" ","x"," ","~"," ","1">>}
CompoundFilters == Joined(CompoundClauses, SingleSpaced \cup WiderSpaced)

FilterStrings ==
  ComparisonFilters \cup CallFilters \cup BetweenFilters \cup SizeFilters \cup ExistsFilters
    \cup InFilters
    \cup PlaceholderFilters(PlaceholderClauses \cup PaddedPlaceholderClauses,
                            SingleSpaced \cup WiderSpaced)
    \cup UnrecognizedFilters \cup CompoundFilters
FilterInputs == {FilterCommandOptions(None, None, None, Some(f)) : f \in FilterStrings}

ParseInputs ==
  {FilterCommandOptions(o[1], sk, o[2], o[3]) :
     o \in OtherTokens, sk \in {None} \cup {Some(tok) : tok \in SortTokens}}
  \cup PartitionInputs \cup FilterInputs

\* The queries of the traversals: compiled ones, with and without key
\* clauses, and one no compiler output has (an operator outside the switch).
CompiledQueries ==
  {parseFilterOptions(o, SchemaWithSort).value :
     o \in {AllAbsent,
            FilterCommandOptions(Some(Str_a), None, None, None),
            FilterCommandOptions(Some(Str_a), Some(<<"b","e","t","w","e","e","n","(","1",",","5",")">>),
                                 Some(Str_index), Some(Str_filter)),
            FilterCommandOptions(None, Some(<<">","1">>), Some(Str_index), None)}}
UnsupportedQuery ==
  [EmptyQuery EXCEPT
     !.partitionKey = Some([name |-> Str_pk, value |-> StrVal(Str_a)]),
     !.sortKey = Some(SortClause(Str_sk, <<"~">>, StrVal(Str_a), None))]
\* The same sortKey clause in a query without a partitionKey clause.
UnsupportedSweepQuery == [UnsupportedQuery EXCEPT !.partitionKey = None]
TraversalQueries == CompiledQueries \cup {UnsupportedQuery, UnsupportedSweepQuery}
TwoQueries ==
  {parseFilterOptions(o, SchemaWithSort).value :
     o \in {AllAbsent, FilterCommandOptions(Some(Str_a), None, None, Some(Str_filter))}}

Tables == {Str_table}
Records == {"r1", "r2"}
Cursors == {"k1", "k2"}

\* What a response's Items may be.
Pages == {None, Some(<<>>), Some(<<"r1">>), Some(<<"r1", "r2">>), Some(<<"r2", "r1">>)}
PagesTwo == {Some(<<>>), Some(<<"r1">>), Some(<<"r2">>)}

\* The largest number of pages the store answers a compiled query with.
MaxPagesCompiled == 2

\* Filters over plain attributes, over the key attributes pk and sk, and over
\* an attribute named like the second placeholder of a between clause on sk.
CompiledFilters ==
  {<<"x","=","1">>,
   <<"a","t","t","r","i","b","u","t","e","_","e","x","i","s","t","s","(","x",")">>,
   <<"a","t","t","r","i","b","u","t","e","_","n","o","t","_","e","x","i","s","t","s","(","x",")"," ","O","R"," ","x","=","1">>,
   <<"b","e","t","w","e","e","n","(","x",",","1",",","5",")">>,
   <<"s","i","z","e","(","x",")",">","1">>,
   <<"x"," ","I","N"," ","(","1",",","2",")">>,
   <<"b","e","g","i","n","s","_","w","i","t","h","(","x",",","'","a","'",")">>,
   <<"c","o","n","t","a","i","n","s","(","x",",","a",")">>,
   <<"x","=","1"," ","A","N","D"," ","y","=","2">>,
   <<"x",">","1"," ","A","N","D"," ","x","<","5">>,
   <<"s","k","2","=","9">>,
   <<"p","k","=","b">>,
   <<"p","k","=","a">>,
   <<"s","k","=","1">>,
   <<"s","k","=","7">>,
   <<"p","k","=","'","a","'">>,
   <<"#","x"," ","="," ",":","x">>,
   <<"(","x","=","1",")">>}
CompiledInputs ==
  {FilterCommandOptions(pk, sk, None, f) :
     pk \in {None, Some(Str_a)},
     sk \in {None, Some(<<">","1">>), Some(<<"b","e","t","w","e","e","n","(","1",",","5",")">>)},
     f \in {None} \cup {Some(x) : x \in CompiledFilters}}
  \cup {FilterCommandOptions(pk, sk, Some(Str_index), None) :
          pk \in {None, Some(Str_a)}, sk \in {None, Some(<<">","1">>)}}
PagesCompiled == {Some(<<>>), Some(<<"r1">>), Some(<<"r1", "r2">>)}

----------------------------------------------------------------------------
(* Specifications *)

\* parseFilterOptions is called with the inputs chosen initially.
ParseCall ==
  /\ parsed = None
  /\ parsed' = Some(parseFilterOptions(cmdOptions, keySchema))
  /\ UNCHANGED <<cmdOptions, keySchema, genVars, ioVars, cmdVars, envVars>>

\* No command handler runs: the compiler and queryTable are called directly.
NoCommand ==
  /\ command = "none" /\ cmdPc = "none" /\ outputFile = None
  /\ consumed = 0 /\ batch = <<>> /\ foundItems = <<>> /\ totalItems = 0
  /\ isFirstItem = TRUE /\ totalDeleted = 0
  /\ written = <<>> /\ prompts = <<>>
  /\ output = [created |-> FALSE, chunks |-> <<>>, ended |-> FALSE, reported |-> None]

InitTraversals ==
  /\ pc = [t \in Traversals |-> "none"]
  /\ options = [t \in Traversals |-> [TableName |-> Str_table, query |-> EmptyQuery]]
  /\ lastEvaluatedKey = [t \in Traversals |-> None]
  /\ KeyConditionExpression = [t \in Traversals |-> None]
  /\ ExpressionAttributeNames = [t \in Traversals |-> EmptyMap]
  /\ ExpressionAttributeValues = [t \in Traversals |-> EmptyMap]
  /\ response = [t \in Traversals |-> NoResponse]
  /\ idx = [t \in Traversals |-> 0]
  /\ pending = [t \in Traversals |-> FALSE]
  /\ outcome = [t \in Traversals |-> "none"]
  /\ yielded = [t \in Traversals |-> <<>>]
  /\ requests = [t \in Traversals |-> <<>>]
  /\ responses = [t \in Traversals |-> <<>>]

\* One traversal and its consumer.
Init ==
  /\ cmdOptions = AllAbsent
  /\ keySchema = SchemaWithSort
  /\ parsed = None
  /\ InitTraversals
  /\ NoCommand

Next ==
  \/ Call(1, Tables, TraversalQueries)
  \/ Start(1)
  \/ Resume(1)
  \/ NextAfterEnd(1)
  \/ Respond(1, MaxPages, Pages, Cursors)
  \/ Fail(1)

Spec == Init /\ [][Next]_vars

\* Two traversals whose steps interleave.
NextTwo ==
  \E t \in Traversals :
    \/ Call(t, Tables, TwoQueries)
    \/ Start(t)
    \/ Resume(t)
    \/ NextAfterEnd(t)
    \/ Respond(t, MaxPagesTwo, PagesTwo, Cursors)
    \/ Fail(t)

SpecTwo == Init /\ [][NextTwo]_vars

\* The compiler alone, over every input.
InitParse ==
  /\ cmdOptions \in ParseInputs
  /\ keySchema \in Schemas
  /\ parsed = None
  /\ InitTraversals
  /\ NoCommand

NextParse == ParseCall

SpecParse == InitParse /\ [][NextParse]_vars

\* A command compiles its options and traverses the table with the result
\* (commands/delete.ts:58 and 85, export.ts:67 and 96, copy.ts:76 and 94).
CallParsed(t) ==
  /\ parsed # None /\ Get(parsed).ok
  /\ Call(t, Tables, {Get(parsed).value})

InitCompiled ==
  /\ cmdOptions \in CompiledInputs
  /\ keySchema = SchemaWithSort
  /\ parsed = None
  /\ InitTraversals
  /\ NoCommand

NextCompiled ==
  \/ ParseCall
  \/ CallParsed(1)
  \/ Start(1)
  \/ Resume(1)
  \/ NextAfterEnd(1)
  \/ Respond(1, MaxPagesCompiled, PagesCompiled, Cursors)
  \/ Fail(1)

SpecCompiled == InitCompiled /\ [][NextCompiled]_vars

----------------------------------------------------------------------------
(* The copy, export and delete commands (commands/copy.ts, export.ts,    *)
(* delete.ts): a handler compiles its options, traverses the table with  *)
(* queryTable and writes, prints or deletes what the traversal yields.   *)
(* A record is a number; the store numbers the records it returns.       *)

\* copy.ts:97, the size at which the batch is written.
CopyBatchSize == 25

\* delete.ts:150
BATCH_SIZE == 25

\* The largest number of pages the store answers a command's traversal with.
MaxPagesCommand == 2

\* The page sizes of the store: empty pages, and pages around the batch size.
PageSizes == {0, 1, 24, 25, 26}

\* The pages the store may answer with next: records not yet returned.
NextPages ==
  {Some([k \in 1..n |-> Len(yielded[1]) + k]) : n \in PageSizes}

Commands == {"copy", "export", "delete"}
Str_file == <<"o">>

\* Options that compile, with and without key clauses, and a malformed sort token.
CommandInputs ==
  {AllAbsent,
   FilterCommandOptions(Some(Str_a), Some(<<">","1">>), None, None),
   FilterCommandOptions(None, Some(<<"b","e","t","w","e","e","n","(","1",")">>), None, None)}

\* What the operator may type at a prompt before pressing enter.
Typed == {<<"y">>, <<"Y">>, <<"n">>, <<"p">>, <<"P">>, <<>>, <<"x">>, <<"y","e","s">>}

\* How a BatchWriteCommand may settle.
WriteOutcomes == {"ok", "rejected"}

\* What is written to the output stream: the opening bracket (export.ts:82),
\* a separator (99), a record as JSON (103), the closing bracket (110).
Chunk(kind, item) == [kind |-> kind, item |-> item]

\* A handler that creates the output stream before it compiles the options.
OpensOutputBeforeParse(name, r) == name = "export"

\* export.ts:67-82: the stream is created and the bracket written only after
\* parseFilterOptions has returned.
OpensOutput(name, r) == name = "export" /\ r.ok

\* delete.ts:58, export.ts:67-82, copy.ts:76: the outcome r of the compiler is
\* kept; an Error leaves the handler (command-wrapper.ts:10-19).
AfterParse(r) ==
  /\ parsed' = Some(r)
  /\ cmdPc' = IF r.ok THEN "loop" ELSE "failed"
  /\ output' = IF OpensOutput(command, r)
               THEN [output EXCEPT !.created = Truthy(outputFile),
                                   !.chunks = Append(@, Chunk("open", 0))]
               ELSE output

\* The handler, with the table chosen and its key schema fetched, compiles
\* the options.
CommandParse ==
  /\ cmdPc = "parse"
  /\ AfterParse(parseFilterOptions(cmdOptions, keySchema))
  /\ UNCHANGED <<cmdOptions, keySchema, genVars, ioVars, command, outputFile, consumed,
                 batch, foundItems, totalItems, isFirstItem, totalDeleted, written, prompts>>

\* delete.ts:85, export.ts:96, copy.ts:94: queryTable is called with the
\* compiled query.
CommandCall == cmdPc = "loop" /\ CallParsed(1)

\* The for await loop asks for the next record once its body has run.
CommandNext ==
  /\ cmdPc = "loop" /\ consumed = Len(yielded[1])
  /\ (Start(1) \/ Resume(1))

\* copy.ts:115-133: one BatchWriteCommand of PutRequests, and how it settles.
writeBatch(records, result) ==
  written' = Append(written, [kind |-> "put", records |-> records, result |-> result])

\* copy.ts:95-103
CopyBody(item) ==
  LET filled == Append(batch, item)
  IN IF Len(filled) = CopyBatchSize
     THEN \E result \in WriteOutcomes :
            /\ writeBatch(filled, result)
            /\ IF result = "ok"
               THEN /\ totalItems' = totalItems + Len(filled)
                    /\ batch' = <<>>
                    /\ cmdPc' = cmdPc
               ELSE /\ totalItems' = totalItems
                    /\ batch' = filled
                    /\ cmdPc' = "failed"
     ELSE /\ batch' = filled
          /\ UNCHANGED <<totalItems, cmdPc, written>>

\* A writer that puts a separator in front of every record.
NeedsSeparatorAlways(first) == TRUE

\* export.ts:98
NeedsSeparator(first) == ~first

\* export.ts:97-106
ExportBody(item) ==
  /\ output' = [output EXCEPT !.chunks =
       (IF NeedsSeparator(isFirstItem) THEN Append(@, Chunk("separator", 0)) ELSE @)
         \o <<Chunk("json", item)>>]
  /\ isFirstItem' = FALSE
  /\ totalItems' = totalItems + 1

\* delete.ts:86
DeleteBody(item) == foundItems' = Append(foundItems, item)

\* One pass through the body of the for await loop with the record just yielded.
CommandBody ==
  /\ cmdPc = "loop" /\ ~pending[1] /\ outcome[1] = "value"
  /\ consumed < Len(yielded[1])
  /\ consumed' = consumed + 1
  /\ \/ /\ command = "copy"
        /\ CopyBody(yielded[1][consumed + 1])
        /\ UNCHANGED <<foundItems, isFirstItem, output>>
     \/ /\ command = "export"
        /\ ExportBody(yielded[1][consumed + 1])
        /\ UNCHANGED <<batch, foundItems, cmdPc, written>>
     \/ /\ command = "delete"
        /\ DeleteBody(yielded[1][consumed + 1])
        /\ UNCHANGED <<batch, totalItems, isFirstItem, cmdPc, written, output>>
  /\ UNCHANGED <<parseVars, genVars, ioVars, command, outputFile, totalDeleted, prompts>>

\* A handler that writes the batch after the loop whatever it holds.
HasRemainderAlways(remaining) == TRUE

\* copy.ts:107
HasRemainder(remaining) == Len(remaining) > 0

\* copy.ts:106-112
CopyEnd ==
  IF HasRemainder(batch)
  THEN \E result \in WriteOutcomes :
         /\ writeBatch(batch, result)
         /\ totalItems' = IF result = "ok" THEN totalItems + Len(batch) ELSE totalItems
         /\ cmdPc' = IF result = "ok" THEN "done" ELSE "failed"
  ELSE /\ cmdPc' = "done"
       /\ UNCHANGED <<totalItems, written>>

\* export.ts:109-120
ExportEnd ==
  /\ output' = [output EXCEPT !.chunks = Append(@, Chunk("close", 0)),
                              !.ended = Truthy(outputFile),
                              !.reported = Some(totalItems)]
  /\ cmdPc' = "done"

\* A prompt on the terminal and, once given, its answer.
Prompt(message) == [message |-> message, answer |-> None]
Answered(shown, answer) ==
  [shown EXCEPT ![Len(shown)] = [@ EXCEPT !.answer = Some(answer)]]

\* delete.ts:89-108: nothing found ends the handler, otherwise it asks.
DeleteEnd ==
  IF Len(foundItems) = 0
  THEN cmdPc' = "done" /\ UNCHANGED prompts
  ELSE cmdPc' = "prompt" /\ prompts' = Append(prompts, Prompt("Delete items?"))

\* The traversal has ended: what follows the for await loop.
CommandLoopEnd ==
  /\ cmdPc = "loop" /\ ~pending[1] /\ outcome[1] = "done"
  /\ \/ /\ command = "copy"
        /\ CopyEnd
        /\ UNCHANGED <<prompts, output>>
     \/ /\ command = "export"
        /\ ExportEnd
        /\ UNCHANGED <<totalItems, written, prompts>>
     \/ /\ command = "delete"
        /\ DeleteEnd
        /\ UNCHANGED <<totalItems, written, output>>
  /\ UNCHANGED <<parseVars, genVars, ioVars, command, outputFile, consumed, batch,
                 foundItems, isFirstItem, totalDeleted>>

\* The traversal has thrown: the Error leaves the loop and the handler
\* (command-wrapper.ts:10-19).
CommandLoopFailed ==
  /\ cmdPc = "loop" /\ ~pending[1] /\ outcome[1] = "rejected"
  /\ cmdPc' = "failed"
  /\ UNCHANGED <<parseVars, genVars, ioVars, command, outputFile, consumed, batch,
                 foundItems, totalItems, isFirstItem, totalDeleted, envVars>>

\* The value a prompt settles with: the typed text, or the default for an
\* empty line (delete.ts:100 and 129).
Entered(typed, default) == IF typed = <<>> THEN default ELSE typed

\* delete.ts:101-107
ValidateFirst(value) == LowerCase(value) \in {<<"y">>, <<"n">>, <<"p">>}

\* delete.ts:130-136
ValidateSecond(value) == LowerCase(value) \in {<<"y">>, <<"n">>}

\* delete.ts:112
IsPreview(action) == LowerCase(action) = <<"p">>

\* A handler that takes every answer for a yes.
ConfirmsAlways(answer) == TRUE

\* delete.ts:139 and 143
Confirms(answer) == LowerCase(answer) = <<"y">>

\* delete.ts:98-146: the operator answers the first prompt with a line that
\* validate accepts.
AnswerFirst ==
  /\ cmdPc = "prompt"
  /\ \E typed \in Typed :
       /\ ValidateFirst(Entered(typed, <<"n">>))
       /\ IF IsPreview(Entered(typed, <<"n">>))
          THEN /\ prompts' = Append(Answered(prompts, Entered(typed, <<"n">>)),
                                    Prompt("Proceed with deletion?"))
               /\ cmdPc' = "confirm"
          ELSE /\ prompts' = Answered(prompts, Entered(typed, <<"n">>))
               /\ cmdPc' = IF Confirms(Entered(typed, <<"n">>)) THEN "deleting" ELSE "done"
  /\ UNCHANGED <<parseVars, genVars, ioVars, command, outputFile, consumed, batch,
                 foundItems, totalItems, isFirstItem, totalDeleted, written, output>>

\* delete.ts:127-142: the answer to the prompt that follows the preview.
AnswerSecond ==
  /\ cmdPc = "confirm"
  /\ \E typed \in Typed :
       /\ ValidateSecond(Entered(typed, <<"n">>))
       /\ prompts' = Answered(prompts, Entered(typed, <<"n">>))
       /\ cmdPc' = IF Confirms(Entered(typed, <<"n">>)) THEN "deleting" ELSE "done"
  /\ UNCHANGED <<parseVars, genVars, ioVars, command, outputFile, consumed, batch,
                 foundItems, totalItems, isFirstItem, totalDeleted, written, output>>

\* The operator leaves a prompt without answering (command-wrapper.ts:13-16).
CancelPrompt ==
  /\ cmdPc \in {"prompt", "confirm"}
  /\ cmdPc' = "cancelled"
  /\ UNCHANGED <<parseVars, genVars, ioVars, command, outputFile, consumed, batch,
                 foundItems, totalItems, isFirstItem, totalDeleted, envVars>>

\* delete.ts:153-172: one BatchWriteCommand of DeleteRequests for the next
\* BATCH_SIZE records found (a record stands for its own key).
DeleteBatch ==
  /\ cmdPc = "deleting"
  /\ LET last == Min({totalDeleted + BATCH_SIZE, Len(foundItems)})
     IN \E result \in WriteOutcomes :
          /\ written' = Append(written,
               [kind |-> "delete", records |-> SubSeq(foundItems, totalDeleted + 1, last),
                result |-> result])
          /\ IF result = "ok"
             THEN /\ totalDeleted' = last
                  /\ cmdPc' = IF last < Len(foundItems) THEN "deleting" ELSE "done"
             ELSE /\ totalDeleted' = totalDeleted
                  /\ cmdPc' = "failed"
  /\ UNCHANGED <<parseVars, genVars, ioVars, command, outputFile, consumed, batch,
                 foundItems, totalItems, isFirstItem, prompts, output>>

InitCommands ==
  /\ cmdOptions \in CommandInputs
  /\ keySchema \in Schemas
  /\ parsed = None
  /\ InitTraversals
  /\ command \in Commands
  /\ cmdPc = "parse"
  /\ outputFile \in IF command = "export" THEN {None, Some(Str_file)} ELSE {None}
  /\ consumed = 0 /\ batch = <<>> /\ foundItems = <<>> /\ totalItems = 0
  /\ isFirstItem = TRUE /\ totalDeleted = 0
  /\ written = <<>> /\ prompts = <<>>
  /\ output = [created |-> FALSE, chunks |-> <<>>, ended |-> FALSE, reported |-> None]

NextCommands ==
  \/ CommandParse
  \/ CommandCall
  \/ CommandNext
  \/ Respond(1, MaxPagesCommand, NextPages, {"k1"})
  \/ Fail(1)
  \/ CommandBody
  \/ CommandLoopEnd
  \/ CommandLoopFailed
  \/ AnswerFirst
  \/ AnswerSecond
  \/ CancelPrompt
  \/ DeleteBatch

\* One command from the compilation of its options to its end.
SpecCommands == InitCommands /\ [][NextCommands]_vars

----------------------------------------------------------------------------
(* What the store and the consumer observed, for the properties below *)

\* The records a response carries, as the store sent them.
ItemsSent(resp) == IF resp.Items = None THEN <<>> ELSE Get(resp.Items)

\* The records of a sequence of responses, in page order.
RECURSIVE ConcatItems(_)
ConcatItems(rs) ==
  IF rs = <<>> THEN <<>> ELSE ItemsSent(rs[1]) \o ConcatItems(Tail(rs))

IsPrefix(a, b) == Len(a) <= Len(b) /\ a = SubSeq(b, 1, Len(a))

CarriesCursor(resp) == resp.kind = "page" /\ resp.LastEvaluatedKey # None
CarriesNoCursor(resp) == resp.kind = "page" /\ resp.LastEvaluatedKey = None

----------------------------------------------------------------------------
(* Traversal engine *)

\* C1: a traversal that the store answers with K >= 1 pages, only the K-th
\* without a cursor, ends having issued exactly K reads and yielded exactly the
\* N records of those pages; no read follows the first response without a
\* cursor, and the traversal does not end while the last response carries one.
C1_ExactReadsAndRecords ==
  \A t \in Traversals :
    LET K == Len(responses[t])
    IN /\ \A k \in 1..K : CarriesNoCursor(responses[t][k]) => Len(requests[t]) = k
       /\ \A k \in 1..K : CarriesCursor(responses[t][k]) =>
            (k < K \/ pc[t] \in {"yielded", "awaiting"})
       /\ pc[t] = "done" =>
            /\ K >= 1
            /\ CarriesNoCursor(responses[t][K])
            /\ \A k \in 1..(K - 1) : CarriesCursor(responses[t][k])
            /\ Len(requests[t]) = K
            /\ Len(yielded[t]) = Len(ConcatItems(responses[t]))

\* A traversal of three pages, one of them empty, has ended after three records.
C1_Witness ==
  /\ pc[1] = "done"
  /\ Len(responses[1]) = 3
  /\ \E k \in 1..2 : CarriesCursor(responses[1][k]) /\ ItemsSent(responses[1][k]) = <<>>
  /\ Len(yielded[1]) = 3

\* C2: the records yielded are the concatenation, in page order, of the items
\* of the responses in the order the store returned them: at every moment a
\* prefix of it, and all of it once a page is used up or the traversal ended.
C2_YieldedIsConcatenation ==
  \A t \in Traversals :
    /\ IsPrefix(yielded[t], ConcatItems(responses[t]))
    /\ pc[t] \in {"done", "awaiting"} => yielded[t] = ConcatItems(responses[t])

\* The same record came in two pages, after a page in the order r2, r1.
C2_Witness ==
  /\ pc[1] = "done"
  /\ yielded[1] = <<"r2", "r1", "r1", "r2">>

\* C3: the first read carries no start cursor and every later read carries the
\* cursor of the response just before it.
C3_CursorFedBack ==
  \A t \in Traversals :
    \A k \in 1..Len(requests[t]) :
      requests[t][k].ExclusiveStartKey =
        IF k = 1 THEN None ELSE responses[t][k - 1].LastEvaluatedKey

\* A third read went out after two responses with different cursors.
C3_Witness ==
  /\ Len(requests[1]) = 3
  /\ responses[1][1].LastEvaluatedKey = Some("k1")
  /\ responses[1][2].LastEvaluatedKey = Some("k2")

\* C4: every read of a traversal is a Query with a key condition when the query
\* has a partitionKey clause and a Scan without one when it has none, as for
\* the empty query compiled from no tokens.
C4_ModeFollowsPartitionKey ==
  /\ parseFilterOptions(AllAbsent, SchemaWithSort) = Returned(EmptyQuery)
  /\ \A t \in Traversals :
       \A k \in 1..Len(requests[t]) :
         IF IsSome(options[t].query.partitionKey)
         THEN /\ requests[t][k].command = "Query"
              /\ IsSome(requests[t][k].KeyConditionExpression)
         ELSE /\ requests[t][k].command = "Scan"
              /\ requests[t][k].KeyConditionExpression = None

\* The empty query has been read page after page, by Scan.
C4_Witness ==
  /\ options[1].query = parseFilterOptions(AllAbsent, SchemaWithSort).value
  /\ Len(requests[1]) = 3
  /\ \A k \in 1..3 : requests[1][k].command = "Scan"

\* C5: at most one read is outstanding, and a read is outstanding only while a
\* next() of the consumer is unsettled and every record of the pages received
\* so far has been handed over; a consumer that asks for nothing gets no read.
C5_OneReadOnDemand ==
  \A t \in Traversals :
    /\ Len(requests[t]) - Len(responses[t]) = (IF pc[t] = "awaiting" THEN 1 ELSE 0)
    /\ pc[t] = "awaiting" => pending[t] /\ yielded[t] = ConcatItems(responses[t])
    /\ Len(yielded[t]) >=
         Len(ConcatItems(SubSeq(responses[t], 1, Len(responses[t]) - 1)))

\* The consumer holds the last record of a page that carries a cursor and has
\* not asked for more: the read for the next page has not been issued.
C5_Witness ==
  /\ pc[1] = "yielded" /\ ~pending[1]
  /\ Len(responses[1]) = 2
  /\ CarriesCursor(responses[1][2])
  /\ yielded[1] = ConcatItems(responses[1])
  /\ Len(yielded[1]) = 4
  /\ Len(requests[1]) = 2

\* C6: a failed read rejects the consumer's next() in that step and ends the
\* traversal: no read is issued after it and no record yielded after it.
C6_FailureEndsTraversal ==
  /\ [](\A t \in Traversals :
          \A k \in 1..Len(responses[t]) :
            responses[t][k].kind = "error" =>
              /\ k = Len(responses[t]) /\ Len(requests[t]) = k
              /\ pc[t] = "threw" /\ ~pending[t]
              /\ yielded[t] = ConcatItems(responses[t]))
  /\ [][\A t \in Traversals :
          (Len(responses'[t]) > Len(responses[t])
             /\ responses'[t][Len(responses'[t])].kind = "error")
          => outcome'[t] = "rejected" /\ yielded'[t] = yielded[t]]_vars

\* The second read failed after a first page of two records, and the consumer
\* has called next() once more.
C6_Witness ==
  /\ Len(responses[1]) = 2
  /\ responses[1][2].kind = "error"
  /\ Len(yielded[1]) = 2
  /\ outcome[1] = "done"

\* C7: each of two interleaved traversals sends the requests its own query
\* and its own responses determine, and yields its own records.
C7_TraversalsIndependent ==
  \A t \in Traversals :
    /\ \A k \in 1..Len(requests[t]) :
         LET own == Prepare(options[t].query).value
         IN requests[t][k] =
              ReadRequest(options[t].TableName, options[t].query,
                          own.KeyConditionExpression, own.ExpressionAttributeNames,
                          own.ExpressionAttributeValues,
                          IF k = 1 THEN None ELSE responses[t][k - 1].LastEvaluatedKey)
    /\ IsPrefix(yielded[t], ConcatItems(responses[t]))

\* Both traversals wait for their second page, with different queries,
\* different cursors and different records.
C7_Witness ==
  /\ pc[1] = "awaiting" /\ pc[2] = "awaiting"
  /\ Len(requests[1]) = 2 /\ Len(requests[2]) = 2
  /\ options[1].query # options[2].query
  /\ responses[1][1].LastEvaluatedKey = Some("k1")
  /\ responses[2][1].LastEvaluatedKey = Some("k2")
  /\ yielded[1] = <<"r1">> /\ yielded[2] = <<"r2">>

----------------------------------------------------------------------------
(* Filter-option compiler *)

\* The compiler has returned or thrown.
HasParsed == parsed # None
Result == Get(parsed)

\* C8: a compiled query has a sortKey clause only if it also has a partitionKey
\* clause, and only if the schema declares a sort key.
C8_SortKeyOnlyWithPartitionKey ==
  (HasParsed /\ Result.ok /\ IsSome(Result.value.sortKey)) =>
    /\ IsSome(Result.value.partitionKey)
    /\ IsSome(keySchema.sortKey)

\* C9: a non-empty sort token against a schema without a sort key makes the
\* compiler throw "Table does not have a sort key" and return no query, whatever
\* the other tokens are and whether or not the sort token is well-formed.
C9_SortTokenWithoutSchemaSortKey ==
  (HasParsed /\ IsSome(cmdOptions.sortKey) /\ Get(cmdOptions.sortKey) # <<>>
     /\ keySchema.sortKey = None)
  => Result = Thrown("Table does not have a sort key")

\* C9 as stated: any supplied sort token against a schema without a sort key
\* makes the compiler fail.
C9_AnySuppliedSortToken ==
  (HasParsed /\ IsSome(cmdOptions.sortKey) /\ keySchema.sortKey = None)
  => ~Result.ok

\* A malformed between( token, with partition, index and filter tokens, was
\* rejected for the missing sort key.
C9_Witness ==
  /\ HasParsed
  /\ keySchema = SchemaNoSort
  /\ cmdOptions = FilterCommandOptions(Some(Str_a), Some(Lit_betweenParen),
                                       Some(Str_index), Some(Str_filter))
  /\ Result = Thrown("Table does not have a sort key")

\* The arguments of a call token: the text between the opening parenthesis
\* and the closing one that ends the token, at its commas.
CallArguments(tok, open) ==
  LET inside == SubSeq(tok, Len(open) + 1, Len(tok) - 1)
  IN IF inside = <<>> THEN 0
     ELSE 1 + Cardinality({i \in 1..Len(inside) : inside[i] = ","})

\* The token opens a call but lacks the closing parenthesis or has not n arguments.
MalformedCall(tok, open, n) ==
  /\ StartsWithCI(tok, open)
  /\ (~EndsWith(tok, <<")">>) \/ CallArguments(tok, open) # n)

\* C10: a sort token that opens with between( or begins_with( and lacks the
\* closing parenthesis, or has other than two (between) or one (begins_with)
\* arguments, makes the compiler throw; between(1) throws and between(1,5)
\* compiles to operator between, value "1", value2 "5".
C10_MalformedCallThrows ==
  (HasParsed /\ IsSome(cmdOptions.sortKey) /\ IsSome(keySchema.sortKey)) =>
    LET tok == Get(cmdOptions.sortKey)
    IN /\ MalformedCall(tok, Lit_betweenParen, 2) => ~Result.ok
       /\ MalformedCall(tok, Lit_begins_withParen, 1) => ~Result.ok
       /\ tok = <<"b","e","t","w","e","e","n","(","1",")">> => ~Result.ok
       /\ tok = <<"b","e","t","w","e","e","n","(","1",",","5",")">> =>
            /\ Result.ok
            /\ Result.value.sortKey =
                 Some(SortClause(Get(keySchema.sortKey), Lit_between,
                                 StrVal(<<"1">>), Some(StrVal(<<"5">>))))

\* The sort token is op, then sep, then a value.
IsOperatorToken(tok, op, sep) == StartsWith(tok, op \o sep)
ValueOf(tok, op, sep) == SubSeq(tok, Len(op) + Len(sep) + 1, Len(tok))

\* A value the three forms leave alone: no blank at either end, no line
\* break, and, written right after the operator, no first character that is a
\* separator or that lengthens the operator.
PlainValue(op, sep, v) ==
  /\ Trim(v) = v
  /\ \A i \in 1..Len(v) : ~IsLineTerminator(v[i])
  /\ sep = <<>> =>
       /\ ~StartsWith(v, <<":">>)
       /\ ~(op \in {Op_lt, Op_gt} /\ StartsWith(v, Op_eq))

CompilesTo(op, v) ==
  /\ Result.ok
  /\ Result.value.sortKey = Some(SortClause(Get(keySchema.sortKey), op, StrVal(v), None))

----------------------------------------------------------------------------
(* Placeholders of compiled queries *)

\* The placeholders written in an expression: a mark (# or :) and the word
\* after it.
PlaceholdersIn(expr, mark) ==
  {<<mark>> \o SubSeq(expr, i + 1, i + WordRun(expr, i + 1)) :
     i \in {j \in 1..Len(expr) : expr[j] = mark /\ WordRun(expr, j + 1) > 0}}

\* The keys of a placeholder map as sent (no map, no keys).
SentKeys(sent) == IF IsSome(sent) THEN MapKeys(Get(sent)) ELSE {}

\* Every clause of the filter is one a recognizer matches.
IsSeparatorWord(trimmed) == LowerCase(trimmed) \in {LowerCase(Lit_AND), LowerCase(Lit_OR)}
Unmatched(part) ==
  LET found == Recognizers(Trim(part))
  IN /\ ~IsSeparatorWord(Trim(part))
     /\ \A k \in 1..Len(found) : found[k] = None
RecognizedFilter(f) ==
  LET parts == SplitAndOr(f)
  IN \A i \in 1..Len(parts) : ~Unmatched(parts[i])

\* C13: for a filter made of recognized clauses, every #name in the filter
\* expression of a read request is a key of the request's name map and every
\* :name a key of its value map.
C13_NoDanglingPlaceholder ==
  (IsSome(cmdOptions.filter) /\ RecognizedFilter(Get(cmdOptions.filter))) =>
    \A t \in Traversals :
      \A k \in 1..Len(requests[t]) :
        LET r == requests[t][k]
        IN IsSome(r.FilterExpression) =>
             /\ PlaceholdersIn(Get(r.FilterExpression), "#")
                  \subseteq SentKeys(r.ExpressionAttributeNames)
             /\ PlaceholdersIn(Get(r.FilterExpression), ":")
                  \subseteq SentKeys(r.ExpressionAttributeValues)

\* The value placeholders of the key clauses of a query and the values the
\* key clauses give them.
KeyValues(query) ==
  (IF IsSome(query.partitionKey)
   THEN {<<<<":">> \o Get(query.partitionKey).name, Get(query.partitionKey).value>>}
   ELSE {})
  \cup
  (IF IsSome(query.partitionKey) /\ IsSome(query.sortKey)
   THEN {<<<<":">> \o Get(query.sortKey).name, Get(query.sortKey).value>>}
        \cup (IF Get(query.sortKey).operator = Lit_between
              THEN {<<<<":">> \o Get(query.sortKey).name \o <<"2">>,
                      Get(Get(query.sortKey).value2)>>}
              ELSE {})
   ELSE {})

\* The attribute names of the key clauses of a query.
KeyNames(query) ==
  (IF IsSome(query.partitionKey) THEN {Get(query.partitionKey).name} ELSE {})
  \cup (IF IsSome(query.sortKey) THEN {Get(query.sortKey).name} ELSE {})

FilterNames(query) ==
  IF IsSome(query.filterAttributes) THEN MapKeys(Get(query.filterAttributes)) ELSE {}

\* C15: when no filter attribute is named like a key attribute, every read
\* request carries, under each value placeholder of the key condition, the
\* value of the key clause.
C15_KeyValuesKept ==
  \A t \in Traversals :
    (FilterNames(options[t].query) \cap KeyNames(options[t].query) = {}) =>
      \A k \in 1..Len(requests[t]) :
        \A kv \in KeyValues(options[t].query) :
          /\ kv[1] \in SentKeys(requests[t][k].ExpressionAttributeValues)
          /\ MapGet(Get(requests[t][k].ExpressionAttributeValues), kv[1]) = kv[2]

\* C16: when a filter attribute is named like a key attribute and has another
\* value, no read request carries either of the two values alone under the
\* shared value placeholder.
C16_ConflictSurfaced ==
  \A t \in Traversals :
    \A k \in 1..Len(requests[t]) :
      \A kv \in KeyValues(options[t].query) :
        \A name \in FilterNames(options[t].query) \cap KeyNames(options[t].query) :
          LET filterValue == MapGet(Get(options[t].query.filterAttributes), name)
          IN (kv[1] = <<":">> \o name /\ filterValue # kv[2])
             => ~(/\ kv[1] \in SentKeys(requests[t][k].ExpressionAttributeValues)
                  /\ MapGet(Get(requests[t][k].ExpressionAttributeValues), kv[1])
                       \in {kv[2], filterValue})

----------------------------------------------------------------------------
(* Filter normalizer, seen through parseFilterOptions *)

\* The compiler has normalized the filter token.
Normalized == HasParsed /\ Result.ok /\ Truthy(cmdOptions.filter)
Filter == Get(cmdOptions.filter)
Expression == Get(Result.value.filterExpression)
Attributes == Get(Result.value.filterAttributes)

\* C14: every literal of every recognized clause is held by the attribute
\* table under the placeholder name its clause refers to, so no two distinct
\* literals share a value placeholder name.
C14_EachLiteralOwnPlaceholder ==
  Normalized =>
    \A i \in 1..Len(SplitAndOr(Filter)) :
      LET assignments == NormalizePart(SplitAndOr(Filter)[i]).assignments
      IN \A j \in 1..Len(assignments) :
           /\ MapHas(Attributes, assignments[j][1])
           /\ MapGet(Attributes, assignments[j][1]) = assignments[j][2]

\* The literal a token stands for when it is coerced as written: boolean,
\* null or number by its own text, otherwise a string less one layer of quotes.
LiteralAsWritten(token) ==
  IF parseValue(token).t # "string" THEN parseValue(token)
  ELSE StrVal(StripQuotes(token))

\* C17: the literal of a comparison clause is coerced from the token as
\* written, so that a token in matching quotes is a string.
C17_CoercedAsWritten ==
  Normalized =>
    \A token \in FilterLiterals :
      Filter = Str_x \o Op_eq \o token =>
        Attributes = {<<Str_x, LiteralAsWritten(token)>>}

\* The expression the normalizer owes a filter whose unmatched clauses pass
\* through unchanged.
PassThrough(parts) ==
  Join([i \in 1..Len(parts) |->
          IF Unmatched(parts[i]) THEN parts[i] ELSE NormalizePart(parts[i]).expression],
       <<" ">>)
NamesOf(assignments) == {assignments[j][1] : j \in 1..Len(assignments)}
NamesAssigned(parts) ==
  UNION {NamesOf(NormalizePart(parts[i]).assignments) :
           i \in {k \in 1..Len(parts) : ~Unmatched(parts[k])}}

\* C18: the normalizer returns a result for every filter, the empty one
\* included; a clause no recognizer matches stands in the expression
\* unchanged and adds nothing to the attribute table.
C18_UnmatchedPassThrough ==
  /\ normalizeFilterExpression(<<>>) = [expression |-> <<>>, attributes |-> EmptyMap]
  /\ (HasParsed /\ Truthy(cmdOptions.filter) /\ ~Truthy(cmdOptions.sortKey)) =>
       /\ Result.ok
       /\ IsSome(Result.value.filterExpression) /\ IsSome(Result.value.filterAttributes)
       /\ LET parts == SplitAndOr(Filter)
          IN /\ Expression = PassThrough(parts)
             /\ MapKeys(Attributes) = NamesAssigned(parts)

\* A padded clause no recognizer matches was kept, blanks included, next to a
\* comparison that was rewritten.
C18_Witness ==
  /\ Normalized
  /\ Filter = <<" ","x"," ","~"," ","1"," ","A","N","D"," ","x","=","1">>
  /\ Expression = <<" ","x"," ","~"," ","1"," ","A","N","D"," ","#","x"," ","="," ",":","x">>
  /\ Attributes = {<<Str_x, [t |-> "number", v |-> <<"1">>]>>}

\* The placeholder of element i of an IN list on x.
InPlaceholder(i) ==
  <<"x","_","i","n">> \o <<<<"0">>, <<"1">>, <<"2">>, <<"3">>, <<"4">>, <<"5">>>>[i]

\* C19: x IN (v1, ..., vk) gives exactly the k entries x_in0 .. x_in(k-1),
\* entry i holding the coerced vi, and the expression #x IN (:x_in0, ...,
\* :x_in(k-1)) in element order.
C19_InList ==
  Normalized =>
    \A list \in InLists, word \in {<<" ","I","N"," ">>, <<" ","i","n"," ">>, <<" ","I","N">>} :
      Filter = InFilter(Str_x, word, list) =>
        /\ Attributes = {<<InPlaceholder(i), parseValue(StripQuotes(Trim(list[i])))>> :
                           i \in 1..Len(list)}
        /\ Cardinality(MapKeys(Attributes)) = Len(list)
        /\ Expression =
             <<"#","x"," ","I","N"," ","(">>
               \o Join([i \in 1..Len(list) |-> <<":">> \o InPlaceholder(i)], <<","," ">>)
               \o <<")">>

\* A list of a number, a quoted string and a boolean was normalized.
C19_Witness ==
  /\ Normalized
  /\ Filter = <<"x"," ","I","N"," ","(","1",",","'","a","'",",","t","r","u","e",")">>
  /\ Attributes = {<<InPlaceholder(1), [t |-> "number", v |-> <<"1">>]>>,
                   <<InPlaceholder(2), StrVal(<<"a">>)>>,
                   <<InPlaceholder(3), [t |-> "boolean", v |-> Lit_true]>>}

\* C20: an expression of placeholder clauses, alone or joined by AND/OR with
\* one space on each side, is returned character for character with an empty
\* attribute table.
C20_PlaceholdersUnchanged ==
  (Normalized /\ Filter \in PlaceholderFilters(PlaceholderClauses, SingleSpaced)
                              \cup PaddedPlaceholderClauses)
  => (Expression = Filter /\ Attributes = EmptyMap)

\* C20 as stated: whatever whitespace surrounds AND/OR.
C20_AnySeparatorSpacing ==
  (Normalized
     /\ Filter \in PlaceholderFilters(PlaceholderClauses, SingleSpaced \cup WiderSpaced))
  => (Expression = Filter /\ Attributes = EmptyMap)

\* Two placeholder clauses joined by a lower-case `and` came back unchanged.
C20_Witness ==
  /\ Normalized
  /\ Filter = <<"#","x"," ","="," ",":","x"," ","a","n","d"," ","#","y"," ",">"," ",":","y">>
  /\ Expression = Filter
  /\ Attributes = EmptyMap

----------------------------------------------------------------------------
(* The compiler's output as the traversal engine's input *)

\* The operators of a KeyClause.
KeyOperators == {Op_eq, Op_lt, Op_le, Op_gt, Op_ge, Lit_begins_with, Lit_between}

\* C21: whenever the compiler succeeds and sets a sortKey clause, the clause's
\* operator is one of =, <, <=, >, >=, begins_with, between, the switch of
\* queryTable has a case for it, and the clause has a value2 exactly when the
\* operator is between.
C21_OperatorRecognized ==
  (HasParsed /\ Result.ok /\ IsSome(Result.value.sortKey)) =>
    LET sortKey == Get(Result.value.sortKey)
    IN /\ sortKey.operator \in KeyOperators
       /\ IsSome(SortCondition(sortKey))
       /\ IsSome(sortKey.value2) <=> sortKey.operator = Lit_between

\* A between token written in capital letters was compiled to the operator
\* between with both values.
C21_Witness ==
  /\ HasParsed /\ Result.ok
  /\ cmdOptions.sortKey = Some(<<"B","E","T","W","E","E","N","("," ","1",","," ","5"," ",")">>)
  /\ Get(Result.value.sortKey).operator = Lit_between
  /\ Get(Result.value.sortKey).value2 = Some(StrVal(<<"5">>))

\* C22: queryTable called with a sortKey clause whose operator is none of =,
\* <, <=, >, >=, begins_with, between throws on the consumer's first next() and
\* sends no read request, whatever the other fields of the query are.
C22_UnsupportedOperatorFails ==
  (/\ pc[1] \notin {"none", "created"}
   /\ IsSome(options[1].query.sortKey)
   /\ Get(options[1].query.sortKey).operator \notin KeyOperators)
  => (pc[1] = "threw" /\ requests[1] = <<>>)

\* C23: a supplied index token is copied unchanged into indexName, and every
\* read request of the traversal of the compiled query names that index,
\* whether it is a Query or a Scan.
C23_IndexTargeted ==
  (HasParsed /\ Result.ok /\ IsSome(cmdOptions.index)) =>
    /\ Result.value.indexName = cmdOptions.index
    /\ \A i \in 1..Len(requests[1]) : requests[1][i].IndexName = cmdOptions.index

\* The comparison operator a token begins with, the longer one first; <<>> when
\* it begins with none.
LeadingOperator(tok) ==
  IF StartsWith(tok, Op_le) THEN Op_le
  ELSE IF StartsWith(tok, Op_ge) THEN Op_ge
  ELSE IF StartsWith(tok, Op_lt) THEN Op_lt
  ELSE IF StartsWith(tok, Op_gt) THEN Op_gt
  ELSE IF StartsWith(tok, Op_eq) THEN Op_eq
  ELSE <<>>

\* The sortKey clause the compiler returned has this operator.
CompiledOperator(op) ==
  /\ Result.ok /\ IsSome(Result.value.sortKey)
  /\ Get(Result.value.sortKey).operator = op

SentPairs(sent) == IF sent = None THEN {} ELSE Get(sent)

\* The filter attributes of a query; none when the field is absent.
FilterEntries(query) ==
  IF IsSome(query.filterAttributes) THEN Get(query.filterAttributes) ELSE {}

\* C26: when the compiled query has a sortKey clause and no partitionKey
\* clause, every read request of its traversal is a Scan without key condition
\* whose placeholder maps hold the filter's entries and nothing else: no name
\* and no value is defined for the sort key clause.
C26_SortKeyIgnoredInSweep ==
  (/\ HasParsed /\ Result.ok
   /\ IsSome(Result.value.sortKey) /\ ~IsSome(Result.value.partitionKey)) =>
    \A i \in 1..Len(requests[1]) :
      LET sent == requests[1][i]
      IN /\ sent.command = "Scan"
         /\ sent.KeyConditionExpression = None
         /\ SentPairs(sent.ExpressionAttributeNames) =
              {<<(<<"#">> \o e[1]), e[1]>> : e \in FilterEntries(Result.value)}
         /\ SentPairs(sent.ExpressionAttributeValues) =
              {<<(<<":">> \o e[1]), e[2]>> : e \in FilterEntries(Result.value)}
         /\ sent.FilterExpression = Result.value.filterExpression

\* A between token without a partition token: two Scan requests without any
\* placeholder were sent and a record was yielded.
C26_Witness ==
  /\ HasParsed /\ Result.ok
  /\ cmdOptions = FilterCommandOptions(None,
       Some(<<"b","e","t","w","e","e","n","(","1",",","5",")">>), None, None)
  /\ Get(Result.value.sortKey).operator = Lit_between
  /\ Len(requests[1]) = 2
  /\ \A i \in 1..2 : /\ requests[1][i].command = "Scan"
                     /\ requests[1][i].ExpressionAttributeValues = None
  /\ yielded[1] # <<>>

\* C27: normalizing the expression the normalizer returned gives back that
\* same expression and an empty attribute table.
C27_IdempotentOnOutput ==
  Normalized =>
    normalizeFilterExpression(Expression) =
      [expression |-> Expression, attributes |-> EmptyMap]

\* A filter of a comparison and a between clause, separated by a padded OR,
\* was rewritten, and its rewritten form is left alone.
C27_Witness ==
  /\ Normalized
  /\ Filter = <<"x","=","1">> \o <<"\t","O","R","\n">>
                \o <<"b","e","t","w","e","e","n","(","y",",","1",",","5",")">>
  /\ Expression # Filter
  /\ Attributes # EmptyMap
  /\ normalizeFilterExpression(Expression).expression = Expression

----------------------------------------------------------------------------
(* Commands *)

\* The records of a sequence of BatchWriteCommands, in the order sent.
RECURSIVE RecordsWritten(_)
RecordsWritten(ws) ==
  IF ws = <<>> THEN <<>> ELSE ws[1].records \o RecordsWritten(Tail(ws))

\* The operator said yes: y to the first prompt, or p to it and y to the
\* prompt after the preview, in either case of the letters.
Approved ==
  \/ /\ Len(prompts) = 1
     /\ prompts[1].message = "Delete items?"
     /\ prompts[1].answer \in {Some(<<"y">>), Some(<<"Y">>)}
  \/ /\ Len(prompts) = 2
     /\ prompts[1].message = "Delete items?"
     /\ prompts[1].answer \in {Some(<<"p">>), Some(<<"P">>)}
     /\ prompts[2].message = "Proceed with deletion?"
     /\ prompts[2].answer \in {Some(<<"y">>), Some(<<"Y">>)}

\* C25: the delete command has sent a delete request only if the traversal
\* has finished, it yielded at least one record and the operator answered y
\* to the first prompt, or p and then y to the second; so with no record, or
\* with any other answer, no delete request is ever sent.
C25_DeleteOnlyWhenConfirmed ==
  (command = "delete" /\ written # <<>>) =>
    /\ pc[1] = "done"
    /\ Len(yielded[1]) >= 1
    /\ Approved
    /\ \A w \in 1..Len(written) : written[w].kind = "delete"

\* After a preview and a capital Y, two delete requests were sent.
C25_Witness ==
  /\ command = "delete"
  /\ Len(prompts) = 2
  /\ prompts[1].answer = Some(<<"p">>)
  /\ prompts[2].answer = Some(<<"Y">>)
  /\ Len(written) = 2
  /\ cmdPc = "done"

\* C28: the copy command sends the yielded records in traversal order, each
\* once, in batches of 1 to 25 records of which only the last sent may hold
\* fewer than 25; while it loops, the records not yet sent are those of its
\* batch, and when it is done the traversal has ended and every yielded
\* record has been sent.
C28_CopyBatches ==
  command = "copy" =>
    /\ \A w \in 1..Len(written) :
         /\ written[w].kind = "put"
         /\ Len(written[w].records) >= 1 /\ Len(written[w].records) <= 25
         /\ w < Len(written) => Len(written[w].records) = 25
    /\ IsPrefix(RecordsWritten(written), yielded[1])
    /\ cmdPc = "loop" =>
         RecordsWritten(written) \o batch = SubSeq(yielded[1], 1, consumed)
    /\ cmdPc = "done" =>
         /\ pc[1] = "done"
         /\ RecordsWritten(written) = yielded[1]

\* A traversal of 51 records was copied in two batches of 25 and one of 1.
C28_Witness ==
  /\ command = "copy" /\ cmdPc = "done"
  /\ Len(yielded[1]) = 51
  /\ Len(written) = 3
  /\ Len(written[3].records) = 1
  /\ totalItems = 51

\* The records as the export command writes them: a separator between
\* consecutive records only.
RECURSIVE Separated(_)
Separated(records) ==
  IF records = <<>> THEN <<>>
  ELSE IF Len(records) = 1 THEN <<Chunk("json", records[1])>>
  ELSE <<Chunk("json", records[1]), Chunk("separator", 0)>> \o Separated(Tail(records))

\* C29: when the export command is done with a traversal that yielded N
\* records, it has written the opening bracket, the N records in traversal
\* order with max(N-1, 0) separators, one between each two consecutive records,
\* and the closing bracket, and it has reported N; for N = 0 it has written
\* the two brackets only.
C29_ExportedArray ==
  (command = "export" /\ cmdPc = "done") =>
    /\ output.chunks =
         <<Chunk("open", 0)>> \o Separated(yielded[1]) \o <<Chunk("close", 0)>>
    /\ Cardinality({c \in 1..Len(output.chunks) : output.chunks[c].kind = "separator"})
         = Max({Len(yielded[1]) - 1, 0})
    /\ output.reported = Some(Len(yielded[1]))
    /\ yielded[1] = <<>> => output.chunks = <<Chunk("open", 0), Chunk("close", 0)>>

\* Two records on two pages were exported to a file.
C29_Witness ==
  /\ command = "export" /\ cmdPc = "done" /\ outputFile = Some(Str_file)
  /\ Len(responses[1]) = 2
  /\ output.chunks = <<Chunk("open", 0), Chunk("json", 1), Chunk("separator", 0),
                       Chunk("json", 2), Chunk("close", 0)>>
  /\ output.reported = Some(2)

\* C30: when parseFilterOptions throws in a command, the command ends: no
\* read request and no batch write is sent, no confirmation prompt is shown
\* and the output file is not created.
C30_NothingAfterParseError ==
  (command \in Commands /\ HasParsed /\ ~Result.ok) =>
    /\ cmdPc = "failed"
    /\ pc[1] = "none" /\ requests[1] = <<>>
    /\ written = <<>>
    /\ prompts = <<>>
    /\ ~output.created /\ output.chunks = <<>>

\* The export command, given an output file and a malformed between token,
\* failed without creating the file.
C30_Witness ==
  /\ command = "export" /\ outputFile = Some(Str_file)
  /\ keySchema = SchemaWithSort
  /\ HasParsed
  /\ Result = Thrown("Invalid between format. Use: between(val1,val2)")
  /\ cmdPc = "failed" /\ ~output.created

====
